---- MODULE Spec2Model ----
(***************************************************************************)
(* Model of the asset upload pipeline (src/src/asset_upload.rs) and of the *)
(* REST dispatcher it uses (src/src/client.rs) of linkedin-ads-cli.        *)
(*                                                                         *)
(* Strings whose content matters (ETag values, asset handles, response    *)
(* texts) are sequences of characters; an optional JSON field is a record  *)
(* [some, v]; a byte buffer read from the file is the slice [off, len] of  *)
(* the file it holds.                                                      *)
(***************************************************************************)
EXTENDS Integers, Sequences, FiniteSets, TLC

VARIABLES
    kind,        \* "image" | "video" | "wait": the entry point that runs
    file_size,   \* length of the local file (std::fs::metadata(..).len())
    wait,        \* upload_video's wait argument
    overflow_checks, \* the build panics on integer overflow (debug profile)
    pc,          \* position of the running entry point
    value,       \* resp.body["value"] of the registration response
    fpos,        \* position of the file handle f opened for the parts
    part_upload_responses, \* the Vec built by the part loop
    complete_resp, \* the finalize response, once received
    sent,        \* every request handed to the network, in order
    recv,        \* what the network answered to each of them
    result,      \* what the entry point returned
    timeout,     \* wait_for_asset_available's timeout argument (seconds)
    elapsed,     \* start.elapsed() (seconds)
    polls,       \* the wait loop: number of queries and sleeps, duration of
                 \* the last query and sleep, answer to the last query
    env,         \* [delays, oversleeps, bodies]: how long a status query and a
                 \* sleep may take, and what a status response may hold
    hin,         \* arguments of the dispatcher operation under check
    hout         \* its outcome (for paginate_all: its locals and its result)

uploadVars == <<kind, file_size, wait, overflow_checks, pc, value, fpos,
                part_upload_responses, complete_resp, sent, recv, result>>
pollVars == <<timeout, elapsed, polls, env>>
harnessVars == <<hin, hout>>
vars == <<kind, file_size, wait, overflow_checks, pc, value, fpos,
          part_upload_responses, complete_resp, sent, recv, result,
          timeout,
          elapsed, polls, env,
          hin, hout>>

----------------------------------------------------------------------------
(* Bounds of the model.                                                    *)

MaxParts == 2       \* longest partUploadRequests list the server returns
MaxByte == 1        \* largest byte offset a part declares
MaxText == 4        \* longest response text handed to the body decoder
MaxPairs == 2       \* most query parameters given to call
MaxHeaders == 2     \* most header lines of a response
MaxLimit == 3       \* largest max_pages and max_items given to paginate_all
MaxPageItems == 2   \* most elements on one page
MaxTimeout == 7     \* largest timeout given to the poller on its own
MaxDelay == 4       \* longest status query, in seconds
MaxOversleep == 1   \* longest overshoot of thread::sleep, in seconds
SlowQuery == 150    \* duration of a status query during an upload

(* Program constants.                                                      *)

MultipartThreshold == 209715200
TunnelThreshold == 3800
PollInterval == 3
VideoWaitTimeout == 300
SyntheticStatus == 200

----------------------------------------------------------------------------
(* Optional values, strings.                                               *)

Some(x) == [some |-> TRUE, v |-> x]
NoneStr == [some |-> FALSE, v |-> <<>>]
NoneInt == [some |-> FALSE, v |-> 0]

Q == "\""

RECURSIVE TrimStart(_, _)
TrimStart(s, c) ==
    IF s # <<>> /\ Head(s) = c THEN TrimStart(Tail(s), c) ELSE s

RECURSIVE TrimEnd(_, _)
TrimEnd(s, c) ==
    IF s # <<>> /\ s[Len(s)] = c THEN TrimEnd(SubSeq(s, 1, Len(s) - 1), c) ELSE s

\* str::trim_matches(c): every leading and every trailing c is removed.
TrimMatches(s, c) == TrimEnd(TrimStart(s, c), c)

\* http::HeaderName::as_str: header names are kept in lower case.
AsciiLower(n) ==
    CASE n = "ETag" -> "etag"
      [] n = "Etag" -> "etag"
      [] n = "ETAG" -> "etag"
      [] n = "Authorization" -> "authorization"
      [] n = "AUTHORIZATION" -> "authorization"
      [] n = "X-Request-Id" -> "x-request-id"
      [] n = "Accept" -> "accept"
      [] n = "Linkedin-Version" -> "linkedin-version"
      [] n = "X-LinkedIn-Version" -> "x-linkedin-version"
      [] n = "X-Restli-Protocol-Version" -> "x-restli-protocol-version"
      [] n = "X-HTTP-Method-Override" -> "x-http-method-override"
      [] n = "Content-Type" -> "content-type"
      [] n = "Set-Cookie" -> "set-cookie"
      [] n = "X-Custom" -> "x-custom"
      [] OTHER -> n

EqIgnoreAsciiCase(a, b) == AsciiLower(a) = AsciiLower(b)

----------------------------------------------------------------------------
(* JSON values of the responses the upload flow reads.                     *)

HdrAbsent == [kind |-> "absent", entries |-> <<>>]
HdrNonObject == [kind |-> "nonobject", entries |-> <<>>]
HdrObject(es) == [kind |-> "object", entries |-> es]

\* json_object_to_headers: an absent or non-object value gives no header, an
\* object gives its string-valued entries (a BTreeMap: in key order).
RECURSIVE StringEntries(_)
StringEntries(es) ==
    IF es = <<>> THEN <<>>
    ELSE IF Head(es).v.some
         THEN <<<<Head(es).k, Head(es).v.v>>>> \o StringEntries(Tail(es))
         ELSE StringEntries(Tail(es))

json_object_to_headers(h) ==
    IF h.kind = "object" THEN StringEntries(h.entries) ELSE <<>>

\* asset_id_from_urn: rsplit_once(':'), the text after the last ':'.
RECURSIVE LastIndexOf(_, _)
LastIndexOf(s, c) ==
    IF s = <<>> THEN 0
    ELSE IF s[Len(s)] = c THEN Len(s)
         ELSE LastIndexOf(SubSeq(s, 1, Len(s) - 1), c)

\* The first occurrence of c in s (0 when there is none).
RECURSIVE FirstIndexOf(_, _)
FirstIndexOf(s, c) ==
    IF s = <<>> THEN 0
    ELSE IF Head(s) = c THEN 1
         ELSE LET i == FirstIndexOf(Tail(s), c) IN IF i = 0 THEN 0 ELSE i + 1

\* Variant: the handle is split at its first ':' (split_once).
asset_id_from_first_colon(s) ==
    LET i == FirstIndexOf(s, ":")
    IN  IF i = 0 THEN NoneStr ELSE Some(SubSeq(s, i + 1, Len(s)))

asset_id_from_urn(s) ==
    LET i == LastIndexOf(s, ":")
    IN  IF i = 0 THEN NoneStr ELSE Some(SubSeq(s, i + 1, Len(s)))

\* .unwrap_or_else(|| asset_urn.to_string())
AssetId(asset_urn) ==
    LET id == asset_id_from_urn(asset_urn)
    IN  IF id.some THEN id.v ELSE asset_urn

----------------------------------------------------------------------------
(* The dispatcher: RestliClient::put_bytes and the response handling that  *)
(* call and put_bytes share.                                               *)

access_token == "TOKEN"
BearerHeader == <<"Authorization", <<"Bearer ", access_token>>>>

\* put_bytes, request part: fixed headers, the bearer token when asked for,
\* then the caller's headers.
put_bytes_request(url, bytes, headers, include_auth) ==
    [fn |-> "put_bytes", method |-> "PUT", url |-> url, query |-> <<>>,
     include_auth |-> include_auth,
     headers |-> <<<<"Content-Type", <<"application/octet-stream">>>>,
                   <<"Accept", <<"application/json">>>>>>
                 \o (IF include_auth THEN <<BearerHeader>> ELSE <<>>)
                 \o headers,
     body |-> bytes]

\* A request made through call, as the upload flow hands it over.
call_request(method, path, query, body) ==
    [fn |-> "call", method |-> method, url |-> path, query |-> query,
     include_auth |-> TRUE, headers |-> <<>>, body |-> body]

\* Variant: the authorization header is not taken out.
RECURSIVE out_headers_keeping_authorization(_)
out_headers_keeping_authorization(raw) ==
    IF raw = <<>> THEN <<>>
    ELSE LET h == raw[Len(raw)]
             rest == out_headers_keeping_authorization(
                         SubSeq(raw, 1, Len(raw) - 1))
             name == AsciiLower(h.name)
         IN  IF ~h.text
             THEN rest
             ELSE SelectSeq(rest, LAMBDA e : e[1] # name)
                  \o <<<<name, h.value>>>>

\* The loop over resp.headers(): a value that is not text is skipped, an
\* authorization header is skipped, a later header of the same name replaces
\* an earlier one.
RECURSIVE out_headers(_)
out_headers(raw) ==
    IF raw = <<>> THEN <<>>
    ELSE LET h == raw[Len(raw)]
             rest == out_headers(SubSeq(raw, 1, Len(raw) - 1))
             name == AsciiLower(h.name)
         IN  IF ~h.text \/ EqIgnoreAsciiCase(name, "authorization")
             THEN rest
             ELSE SelectSeq(rest, LAMBDA e : e[1] # name)
                  \o <<<<name, h.value>>>>

\* Variant: a header that is not there reads as an empty value.
find_header_or_empty(headers, name) ==
    LET hits == SelectSeq(headers, LAMBDA e : EqIgnoreAsciiCase(e[1], name))
    IN  IF hits = <<>> THEN Some(<<>>) ELSE Some(Head(hits)[2])

\* find_header_ci
find_header_ci(headers, name) ==
    LET hits == SelectSeq(headers, LAMBDA e : EqIgnoreAsciiCase(e[1], name))
    IN  IF hits = <<>> THEN NoneStr ELSE Some(Head(hits)[2])

\* Variant: every status below 400 counts as a success.
is_success_below_400(status) == status >= 200 /\ status < 400

\* StatusCode::is_success
is_success(status) == status >= 200 /\ status < 300

\* The end of call and of put_bytes: an error for a non-2xx status, the
\* RestliResponse otherwise.
finish(status, headers, body) ==
    IF ~is_success(status)
    THEN [ok |-> FALSE, err |-> "http", status |-> status,
          headers |-> <<>>, body |-> body]
    ELSE [ok |-> TRUE, err |-> "", status |-> status,
          headers |-> headers, body |-> body]

\* A transport failure of req.send().
send_failed ==
    [ok |-> FALSE, err |-> "send request", status |-> 0,
     headers |-> <<>>, body |-> [t |-> "null"]]

\* What the network may answer: no answer, or a status, headers and body.
Answer(r) ==
    IF r.neterr THEN send_failed
    ELSE finish(r.status, out_headers(r.headers), r.body)

----------------------------------------------------------------------------
(* The dispatcher: decoding of the response body, shared by call and       *)
(* put_bytes. A text is a sequence over Chars; "1" is a digit, "x" stands  *)
(* for any character that starts no JSON value.                            *)

Chars == {" ", "1", "[", "]", ",", "x"}

\* str::trim
Trim(text) == TrimMatches(text, " ")

JNull == [t |-> "null"]
JString(text) == [t |-> "string", s |-> text]
JNumber(n) == [t |-> "number", n |-> n]
JArray(items) == [t |-> "array", items |-> items]

RECURSIVE SkipWs(_, _)
SkipWs(s, i) == IF i <= Len(s) /\ s[i] = " " THEN SkipWs(s, i + 1) ELSE i

RECURSIVE DigitsEnd(_, _)
DigitsEnd(s, i) == IF i <= Len(s) /\ s[i] = "1" THEN DigitsEnd(s, i + 1) ELSE i

RECURSIVE Decimal(_)
Decimal(k) == IF k = 0 THEN 0 ELSE 10 * Decimal(k - 1) + 1

ParseFail == [ok |-> FALSE, val |-> JNull, next |-> 0]

\* serde_json's parser on the characters above: parse_value reads a number or
\* an array at position i (whitespace already skipped); parse_items reads the
\* rest of an array, one value and then a ',' or the closing ']'.
RECURSIVE parse_value(_, _)
RECURSIVE parse_items(_, _, _)
parse_value(s, i) ==
    IF i > Len(s) THEN ParseFail
    ELSE IF s[i] = "1"
    THEN [ok |-> TRUE, val |-> JNumber(Decimal(DigitsEnd(s, i) - i)),
          next |-> DigitsEnd(s, i)]
    ELSE IF s[i] = "["
    THEN LET k == SkipWs(s, i + 1)
         IN  IF k <= Len(s) /\ s[k] = "]"
             THEN [ok |-> TRUE, val |-> JArray(<<>>), next |-> k + 1]
             ELSE parse_items(s, k, <<>>)
    ELSE ParseFail

parse_items(s, i, acc) ==
    LET v == parse_value(s, i)
        k == SkipWs(s, v.next)
    IN  IF ~v.ok \/ k > Len(s) THEN ParseFail
        ELSE IF s[k] = "]"
        THEN [ok |-> TRUE, val |-> JArray(Append(acc, v.val)), next |-> k + 1]
        ELSE IF s[k] = ","
        THEN parse_items(s, SkipWs(s, k + 1), Append(acc, v.val))
        ELSE ParseFail

\* serde_json::from_str: one value, whitespace around it, nothing else.
from_str(text) ==
    LET v == parse_value(text, SkipWs(text, 1))
    IN  IF v.ok /\ SkipWs(text, v.next) > Len(text) THEN v ELSE ParseFail

\* Variant: a body that is no JSON is reported as a failure.
decode_body_strict(text) ==
    IF Trim(text) = <<>> THEN JNull
    ELSE IF from_str(text).ok THEN from_str(text).val
    ELSE [t |-> "error"]

\* if text.trim().is_empty() { Null } else { from_str(&text).unwrap_or_else(..) }
decode_body(text) ==
    IF Trim(text) = <<>> THEN JNull
    ELSE IF from_str(text).ok THEN from_str(text).val
    ELSE JString(text)

----------------------------------------------------------------------------
(* What the server may answer to the upload flow.                          *)

UploadUrl == <<"https://up.example/abc">>
PartUrl(i) == <<"https://parts.example/", i>>
AssetHandles == {<<"urn", ":", "li", ":", "A1">>}

DirectHeaderJsons ==
    {HdrAbsent, HdrNonObject,
     HdrObject(<<[k |-> "Authorization-Hint", v |-> Some(<<"x">>)],
                 [k |-> "X-Count", v |-> NoneStr]>>)}

PartHeaderJson(i) ==
    HdrObject(<<[k |-> "X-Part", v |-> Some(<<"p", i>>)],
                [k |-> "X-Size", v |-> NoneStr]>>)

\* One entry of partUploadRequests: well formed with any declared range, or
\* with one required field missing.
PartChoices(i) ==
    {[url |-> Some(PartUrl(i)), firstByte |-> Some(f), lastByte |-> Some(l),
      headers |-> PartHeaderJson(i)] : f \in 0..MaxByte, l \in 0..MaxByte}
    \cup {[url |-> NoneStr, firstByte |-> Some(0), lastByte |-> Some(0),
           headers |-> PartHeaderJson(i)],
          [url |-> Some(PartUrl(i)), firstByte |-> NoneInt, lastByte |-> Some(0),
           headers |-> PartHeaderJson(i)],
          [url |-> Some(PartUrl(i)), firstByte |-> Some(0), lastByte |-> NoneInt,
           headers |-> PartHeaderJson(i)]}

RECURSIVE PartLists(_)
PartLists(n) ==
    IF n = 0 THEN {<<>>}
    ELSE {Append(l, p) : l \in PartLists(n - 1), p \in PartChoices(n)}

NoHttp == [present |-> FALSE, uploadUrl |-> NoneStr, headers |-> HdrAbsent]
NoMultipart ==
    [present |-> FALSE, metadata |-> NoneStr,
     partUploadRequests |-> [isArray |-> FALSE, items |-> <<>>]]
OnePart ==
    [present |-> TRUE, metadata |-> Some(<<"meta">>),
     partUploadRequests |->
        [isArray |-> TRUE,
         items |-> <<[url |-> Some(PartUrl(1)), firstByte |-> Some(0),
                      lastByte |-> Some(0), headers |-> PartHeaderJson(1)]>>]]

NoValue ==
    [hasValue |-> FALSE, asset |-> NoneStr, http |-> NoHttp,
     multipart |-> NoMultipart, mediaArtifact |-> NoneStr]

AssetChoices == {NoneStr} \cup {Some(a) : a \in AssetHandles}

\* Bodies of the registration response: without value; with the direct
\* mechanism (alone or beside a multipart one); with the multipart mechanism
\* (complete with every part list, or lacking one required field); with
\* neither mechanism.
DirectBodies ==
    {[hasValue |-> TRUE, asset |-> a,
      http |-> [present |-> TRUE, uploadUrl |-> u, headers |-> h],
      multipart |-> m, mediaArtifact |-> Some(<<"artifact">>)] :
        a \in AssetChoices, u \in {NoneStr, Some(UploadUrl)},
        h \in DirectHeaderJsons, m \in {NoMultipart, OnePart}}

MultipartBodies ==
    {[hasValue |-> TRUE, asset |-> a, http |-> NoHttp,
      multipart |-> [present |-> TRUE, metadata |-> Some(<<"meta">>),
                     partUploadRequests |-> [isArray |-> TRUE, items |-> l]],
      mediaArtifact |-> Some(<<"artifact">>)] :
        a \in AssetChoices, l \in UNION {PartLists(n) : n \in 0..MaxParts}}
    \cup
    {[hasValue |-> TRUE, asset |-> Some(CHOOSE a \in AssetHandles : TRUE),
      http |-> NoHttp,
      multipart |-> [present |-> TRUE, metadata |-> md,
                     partUploadRequests |-> [isArray |-> arr,
                                             items |-> OnePart.partUploadRequests.items]],
      mediaArtifact |-> ma] :
        md \in {NoneStr, Some(<<"meta">>)}, ma \in {NoneStr, Some(<<"artifact">>)},
        arr \in BOOLEAN}

NeitherBodies ==
    {[hasValue |-> TRUE, asset |-> a, http |-> NoHttp, multipart |-> NoMultipart,
      mediaArtifact |-> NoneStr] : a \in AssetChoices}

RegisterBodies == {NoValue} \cup DirectBodies \cup MultipartBodies \cup NeitherBodies

RegisterAnswers ==
    {[neterr |-> TRUE, status |-> 0, headers |-> <<>>, body |-> NoValue]}
    \cup {[neterr |-> FALSE, status |-> 401, headers |-> <<>>, body |-> NoValue]}
    \cup {[neterr |-> FALSE, status |-> 200, headers |-> <<>>, body |-> b] :
            b \in RegisterBodies}

\* Answers to an upload PUT: a failure, or 2xx with or without an ETag header.
ETags == {<<Q, "e1", Q>>, <<"e2">>}
NullBody == [t |-> "null"]

PutAnswers ==
    {[neterr |-> TRUE, status |-> 0, headers |-> <<>>, body |-> NullBody],
     [neterr |-> FALSE, status |-> 500, headers |-> <<>>, body |-> NullBody],
     [neterr |-> FALSE, status |-> 201,
      headers |-> <<[name |-> "X-Request-Id", value |-> <<"r">>, text |-> TRUE]>>,
      body |-> NullBody]}
    \cup {[neterr |-> FALSE, status |-> 200,
           headers |-> <<[name |-> "Authorization", value |-> <<"s">>, text |-> TRUE],
                         [name |-> "ETag", value |-> e, text |-> TRUE]>>,
           body |-> NullBody] : e \in ETags}

CompleteAnswers ==
    {[neterr |-> TRUE, status |-> 0, headers |-> <<>>, body |-> NullBody],
     [neterr |-> FALSE, status |-> 400, headers |-> <<>>, body |-> NullBody],
     [neterr |-> FALSE, status |-> 200, headers |-> <<>>, body |-> NullBody],
     [neterr |-> FALSE, status |-> 200, headers |-> <<>>,
      body |-> [t |-> "object"]]}

\* Bodies of the status response: recipes is an array of entries whose status
\* is a string or is missing, or there is no recipes array.
Recipes(rs) == [hasRecipes |-> TRUE, recipes |-> rs]
StatusBodies ==
    {[hasRecipes |-> FALSE, recipes |-> <<>>],
     Recipes(<<>>),
     Recipes(<<Some("AVAILABLE")>>),
     Recipes(<<Some("AVAILABLE"), Some("AVAILABLE")>>),
     Recipes(<<Some("AVAILABLE"), Some("PROCESSING")>>),
     Recipes(<<Some("PROCESSING")>>),
     Recipes(<<[some |-> FALSE, v |-> ""]>>)}

StatusAnswers(bodies) ==
    {[neterr |-> TRUE, status |-> 0, headers |-> <<>>, body |-> Recipes(<<>>)],
     [neterr |-> FALSE, status |-> 404, headers |-> <<>>, body |-> Recipes(<<>>)]}
    \cup {[neterr |-> FALSE, status |-> 200, headers |-> <<>>, body |-> b] :
            b \in bodies}

----------------------------------------------------------------------------
(* upload_image and upload_video.                                          *)

NoResult ==
    [kind |-> "none", err |-> "", status |-> 0, register |-> NoValue,
     composite |-> FALSE, complete |-> NullBody]
Err(msg) == [NoResult EXCEPT !.kind = "err", !.err = msg]
HttpErr(a) == [NoResult EXCEPT !.kind = "err", !.err = a.err, !.status = a.status]
\* Ok(value.clone())
OkValue(v) == [NoResult EXCEPT !.kind = "ok", !.register = v]
\* Variant: the composite does not take the finalize response's body.
OkCompositeWithoutBody(v, c) ==
    [NoResult EXCEPT !.kind = "ok", !.register = v, !.composite = TRUE]

\* Ok(json!({"register": value, "complete": complete_resp.body}))
OkComposite(v, c) ==
    [NoResult EXCEPT !.kind = "ok", !.register = v, !.composite = TRUE,
                     !.complete = c]
OkUnit == [NoResult EXCEPT !.kind = "ok"]

NoComplete == [some |-> FALSE, body |-> NullBody]
NoPolls ==
    [queries |-> 0, sleeps |-> 0, lastDelay |-> 0, lastSleep |-> 0,
     answer |-> [neterr |-> TRUE, status |-> 0, headers |-> <<>>,
                 body |-> [hasRecipes |-> FALSE, recipes |-> <<>>]]]

\* Variant: the threshold itself already asks for multipart.
multipart_requested_inclusive(size) == size >= MultipartThreshold

\* let multipart = file_size > 200 * 1024 * 1024;
multipart_requested(size) == size > MultipartThreshold

\* The registerUploadRequest of upload_image and of upload_video.
register_payload(k, size) ==
    IF k = "image"
    THEN [supportedUploadMechanism |-> Some(<<"SYNCHRONOUS_UPLOAD">>),
          fileSize |-> NoneInt]
    ELSE IF multipart_requested(size)
         THEN [supportedUploadMechanism |-> Some(<<"MULTIPART_UPLOAD">>),
               fileSize |-> Some(size)]
         ELSE [supportedUploadMechanism |-> NoneStr, fileSize |-> NoneInt]

\* Variant: the part PUT asks for the bearer token.
part_include_auth_on == TRUE

\* Variant: the image PUT does not ask for the bearer token.
image_include_auth_off == FALSE

\* The include_auth argument of the three put_bytes calls.
image_include_auth == TRUE
video_direct_include_auth == FALSE
part_include_auth == FALSE

\* Variant: the inclusive end of the range is not counted.
part_size_exclusive(first, last, checks) ==
    IF last >= first THEN [panic |-> FALSE, size |-> last - first]
    ELSE [panic |-> TRUE, size |-> 0]

\* let size = (last - first + 1) as usize; let mut buf = vec![0u8; size];
\* u64 arithmetic: with last < first the subtraction overflows. A build with
\* overflow checks panics; one without wraps, to 0 when last = first - 1 and
\* otherwise to a length above isize::MAX, which vec! refuses with a panic.
part_size(first, last, checks) ==
    IF last >= first THEN [panic |-> FALSE, size |-> last - first + 1]
    ELSE IF ~checks /\ last = first - 1 THEN [panic |-> FALSE, size |-> 0]
    ELSE [panic |-> TRUE, size |-> 0]

\* f.seek(SeekFrom::Start(first))
seek(pos, first) == first

\* f.read_exact(&mut buf): the len bytes at pos, or an error at end of file.
read_exact(pos, len, flen) ==
    IF len = 0 \/ pos + len <= flen
    THEN [ok |-> TRUE, bytes |-> [off |-> pos, len |-> len], pos |-> pos + len]
    ELSE [ok |-> FALSE, bytes |-> [off |-> pos, len |-> 0], pos |-> pos]

\* read_all_bytes: the whole file.
read_all_bytes(flen) == [off |-> 0, len |-> flen]

\* Variant: the ETag is recorded as received.
part_response_raw(etag) ==
    [headers |-> [ETag |-> etag], httpStatusCode |-> SyntheticStatus]

\* etag.trim_matches('"'), pushed with the synthetic status code.
part_response(etag) ==
    [headers |-> [ETag |-> TrimMatches(etag, Q)], httpStatusCode |-> SyntheticStatus]

complete_payload(media_artifact, metadata, responses) ==
    [mediaArtifact |-> media_artifact, metadata |-> metadata,
     partUploadResponses |-> responses]

\* Variant: the mechanism is taken from the size decision.
upload_mechanism_by_size(v, multipart) ==
    IF multipart
    THEN IF v.multipart.present THEN "multipart" ELSE "none"
    ELSE IF v.http.present THEN "direct" ELSE "none"

\* The branch of upload_video on the registration value: the direct mechanism
\* when value holds one (if let Some(http)), else the multipart mechanism,
\* else the error. The size decision `multipart` is not consulted.
upload_mechanism(v, multipart) ==
    IF v.http.present THEN "direct"
    ELSE IF v.multipart.present THEN "multipart"
    ELSE "none"

\* Variant: after an error the step is tried again.
ReturnAndRetry(r) == /\ pc' = (IF r.kind = "err" THEN pc ELSE "done")
                     /\ result' = r

\* return: the entry point ends with r; `?` returns the first error.
Return(r) == /\ pc' = "done"
             /\ result' = r

\* Variant: the wait flag is not consulted.
enters_wait_without_flag(w, v) == v.asset.some

\* if wait { if let Some(asset) = value.get("asset").and_then(|v| v.as_str())
enters_wait(w, v) == w /\ v.asset.some

\* The end of upload_video once the bytes are in place: poll when wait was
\* asked for and the value holds a string asset, then return.
AfterUpload(okResult) ==
    IF enters_wait(wait, value)
    THEN /\ pc' = "poll"
         /\ timeout' = VideoWaitTimeout
         /\ elapsed' = 0
         /\ polls' = NoPolls
         /\ UNCHANGED <<result, env>>
    ELSE /\ Return(okResult)
         /\ UNCHANGED pollVars

\* std::fs::metadata fails: upload_video returns before any request.
StatFails ==
    /\ pc = "start" /\ kind = "video"
    /\ Return(Err("stat"))
    /\ UNCHANGED <<kind, file_size, wait, overflow_checks, value, fpos,
                   part_upload_responses, complete_resp, sent, recv>>
    /\ UNCHANGED pollVars /\ UNCHANGED harnessVars

\* The registration call and the inspection of its response, up to the next
\* file or network operation.
Register ==
    /\ pc = "start" /\ kind \in {"image", "video"}
    /\ sent' = Append(sent, call_request("POST", <<"/assets">>,
                        <<<<"action", "registerUpload">>>>,
                        register_payload(kind, file_size)))
    /\ \E r \in RegisterAnswers, opened \in BOOLEAN :
      /\ recv' = Append(recv, r)
      /\ LET a == Answer(r)
             v == a.body
         IN  IF ~a.ok THEN Return(HttpErr(a)) /\ UNCHANGED value
             ELSE IF ~v.hasValue
             THEN Return(Err("missing response.value")) /\ UNCHANGED value
             ELSE /\ value' = v
                  /\ IF kind = "image"
                     THEN IF ~v.http.present
                          THEN Return(Err("missing uploadMechanism.MediaUploadHttpRequest"))
                          ELSE IF ~v.http.uploadUrl.some
                          THEN Return(Err("missing uploadUrl"))
                          ELSE pc' = "direct" /\ UNCHANGED result
                     ELSE IF upload_mechanism(v, multipart_requested(file_size))
                                = "direct"
                          THEN IF ~v.http.uploadUrl.some
                               THEN Return(Err("missing uploadUrl"))
                               ELSE pc' = "direct" /\ UNCHANGED result
                     ELSE IF upload_mechanism(v, multipart_requested(file_size))
                                = "none"
                          THEN Return(Err("missing uploadMechanism"))
                     ELSE IF ~v.multipart.metadata.some
                          THEN Return(Err("missing multipart metadata"))
                     ELSE IF ~v.mediaArtifact.some
                          THEN Return(Err("missing mediaArtifact"))
                     ELSE IF ~v.multipart.partUploadRequests.isArray
                          THEN Return(Err("missing partUploadRequests"))
                     ELSE IF ~opened
                          THEN Return(Err("open"))
                          ELSE pc' = "parts" /\ UNCHANGED result
    /\ UNCHANGED <<kind, file_size, wait, overflow_checks, fpos,
                   part_upload_responses, complete_resp>>
    /\ UNCHANGED pollVars /\ UNCHANGED harnessVars

\* The direct path: read the whole file and PUT it to uploadUrl.
DirectPut ==
    /\ pc = "direct"
    /\ \E readable \in BOOLEAN, r \in PutAnswers :
         IF ~readable
         THEN Return(Err("open")) /\ UNCHANGED <<sent, recv, pollVars>>
         ELSE /\ sent' = Append(sent,
                    put_bytes_request(value.http.uploadUrl.v,
                        read_all_bytes(file_size),
                        json_object_to_headers(value.http.headers),
                        IF kind = "image" THEN image_include_auth
                                          ELSE video_direct_include_auth))
              /\ recv' = Append(recv, r)
              /\ LET a == Answer(r)
                 IN  IF ~a.ok THEN Return(HttpErr(a)) /\ UNCHANGED pollVars
                     ELSE IF kind = "image"
                     THEN Return(OkValue(value)) /\ UNCHANGED pollVars
                     ELSE AfterUpload(OkValue(value))
    /\ UNCHANGED <<kind, file_size, wait, overflow_checks, value, fpos,
                   part_upload_responses, complete_resp>>
    /\ UNCHANGED harnessVars

\* Variant: the list of parts is walked from its end.
next_part_from_end(parts, responses) == Len(parts) - Len(responses)

\* for part in parts: the part the next iteration takes, one response having
\* been pushed for each part before it.
next_part(parts, responses) == Len(responses) + 1

\* Variant: the loop is left after its first iteration.
parts_exhausted_after_first(parts, responses) ==
    Len(responses) >= 1 \/ Len(parts) = 0

\* for part in parts: the loop ends when every part has been taken.
parts_exhausted(parts, responses) == Len(responses) = Len(parts)

\* One iteration of the loop over parts.
PartPut ==
    /\ pc = "parts"
    /\ ~parts_exhausted(value.multipart.partUploadRequests.items,
                        part_upload_responses)
    /\ LET part == value.multipart.partUploadRequests.items[
                       next_part(value.multipart.partUploadRequests.items,
                                 part_upload_responses)]
           sz == part_size(part.firstByte.v, part.lastByte.v, overflow_checks)
           rd == read_exact(seek(fpos, part.firstByte.v), sz.size, file_size)
       IN  IF ~part.url.some
           THEN Return(Err("missing part url"))
                /\ UNCHANGED <<fpos, part_upload_responses, sent, recv>>
           ELSE IF ~part.firstByte.some
           THEN Return(Err("missing firstByte"))
                /\ UNCHANGED <<fpos, part_upload_responses, sent, recv>>
           ELSE IF ~part.lastByte.some
           THEN Return(Err("missing lastByte"))
                /\ UNCHANGED <<fpos, part_upload_responses, sent, recv>>
           ELSE IF sz.panic
           THEN /\ pc' = "panicked"
                /\ UNCHANGED <<fpos, part_upload_responses, sent, recv, result>>
           ELSE IF ~rd.ok
           THEN Return(Err("read part"))
                /\ fpos' = seek(fpos, part.firstByte.v)
                /\ UNCHANGED <<part_upload_responses, sent, recv>>
           ELSE /\ fpos' = rd.pos
                /\ sent' = Append(sent,
                      put_bytes_request(part.url.v, rd.bytes,
                          json_object_to_headers(part.headers),
                          part_include_auth))
                /\ \E r \in PutAnswers :
                  /\ recv' = Append(recv, r)
                  /\ LET a == Answer(r)
                         etag == find_header_ci(a.headers, "etag")
                     IN  IF ~a.ok
                         THEN Return(HttpErr(a)) /\ UNCHANGED part_upload_responses
                         ELSE IF ~etag.some
                         THEN Return(Err("missing ETag header for multipart part"))
                              /\ UNCHANGED part_upload_responses
                         ELSE /\ part_upload_responses' =
                                    Append(part_upload_responses,
                                           part_response(etag.v))
                              /\ UNCHANGED <<pc, result>>
    /\ UNCHANGED <<kind, file_size, wait, overflow_checks, value, complete_resp>>
    /\ UNCHANGED pollVars /\ UNCHANGED harnessVars

\* The finalize call after the loop.
Complete ==
    /\ pc = "parts"
    /\ parts_exhausted(value.multipart.partUploadRequests.items,
                       part_upload_responses)
    /\ sent' = Append(sent, call_request("POST", <<"/assets">>,
                        <<<<"action", "completeMultiPartUpload">>>>,
                        complete_payload(value.mediaArtifact.v,
                                         value.multipart.metadata.v,
                                         part_upload_responses)))
    /\ \E r \in CompleteAnswers :
      /\ recv' = Append(recv, r)
      /\ LET a == Answer(r)
         IN  IF ~a.ok
             THEN Return(HttpErr(a)) /\ UNCHANGED <<complete_resp, pollVars>>
             ELSE /\ complete_resp' = [some |-> TRUE, body |-> a.body]
                  /\ AfterUpload(OkComposite(value, a.body))
    /\ UNCHANGED <<kind, file_size, wait, overflow_checks, value, fpos,
                   part_upload_responses>>
    /\ UNCHANGED harnessVars

----------------------------------------------------------------------------
(* wait_for_asset_available.                                               *)

\* Variant: another sentinel is taken for the ready status.
all_ready_other_sentinel(body) ==
    /\ body.hasRecipes
    /\ \A i \in 1..Len(body.recipes) :
          body.recipes[i].some /\ body.recipes[i].v = "READY"

\* Variant: an entry without a string status counts as ready
\* (unwrap_or(true)).
all_ready_unless_other_status(body) ==
    /\ body.hasRecipes
    /\ \A i \in 1..Len(body.recipes) :
          body.recipes[i].some => body.recipes[i].v = "AVAILABLE"

\* Variant: the deadline is never found to have passed.
deadline_never_passed(e, t) == FALSE

\* Variant: the deadline counts as passed only once it is exceeded.
deadline_passed_strict(e, t) == e > t

\* if start.elapsed() >= timeout
deadline_passed(e, t) == e >= t

\* recipes.iter().all(|r| r.status == "AVAILABLE"), for a recipes array.
all_ready(body) ==
    /\ body.hasRecipes
    /\ \A i \in 1..Len(body.recipes) :
          body.recipes[i].some /\ body.recipes[i].v = "AVAILABLE"

\* What the caller of the wait returns when the wait succeeds.
AfterWait ==
    IF kind = "wait" THEN OkUnit
    ELSE IF complete_resp.some THEN OkComposite(value, complete_resp.body)
    ELSE OkValue(value)

\* Variant: the outcome of the wait is not looked at.
after_wait_ignoring_error(r) == AfterWait

\* wait_for_asset_available(..)?: an error of the wait is what the caller
\* returns; after a successful wait the caller goes on to its own result.
after_wait(r) == IF r.kind = "err" THEN r ELSE AfterWait

\* One iteration of the loop up to the sleep: the status query, the readiness
\* test and the deadline test. The query takes d seconds.
PollQuery ==
    /\ pc = "poll"
    /\ sent' = Append(sent, call_request("GET",
                        <<"/assets/">> \o AssetId(value.asset.v),
                        <<<<"fields", "recipes,id,status">>>>,
                        [t |-> "none"]))
    /\ \E d \in env.delays, r \in StatusAnswers(env.bodies) :
         LET a == Answer(r)
         IN  /\ elapsed' = elapsed + d
             /\ polls' = [polls EXCEPT !.queries = @ + 1, !.lastDelay = d,
                                       !.answer = r]
             /\ IF ~a.ok THEN Return(after_wait(HttpErr(a)))
                ELSE IF all_ready(a.body) THEN Return(after_wait(OkUnit))
                ELSE IF deadline_passed(elapsed + d, timeout)
                THEN Return(after_wait(Err("asset processing timeout")))
                ELSE pc' = "sleep" /\ UNCHANGED result
    /\ UNCHANGED <<kind, file_size, wait, overflow_checks, value, fpos,
                   part_upload_responses, complete_resp, recv, timeout, env>>
    /\ UNCHANGED harnessVars

\* sleep(Duration::from_secs(3)): at least the interval.
PollSleep ==
    /\ pc = "sleep"
    /\ \E o \in env.oversleeps :
         /\ elapsed' = elapsed + PollInterval + o
         /\ polls' = [polls EXCEPT !.sleeps = @ + 1, !.lastSleep = PollInterval + o]
    /\ pc' = "poll"
    /\ UNCHANGED <<kind, file_size, wait, overflow_checks, value, fpos,
                   part_upload_responses, complete_resp, sent, recv, result,
                   timeout, env>>
    /\ UNCHANGED harnessVars

----------------------------------------------------------------------------
(* Specification of one upload: upload_image or upload_video on a file of  *)
(* any of the sizes below, against any server.                             *)

FileSizes == 0..(MaxByte + 1)
             \cup {MultipartThreshold, MultipartThreshold + 1}

NoHarness == [op |-> "none"]

Init ==
    /\ kind \in {"image", "video"}
    /\ file_size \in FileSizes
    /\ wait \in IF kind = "video" THEN BOOLEAN ELSE {FALSE}
    /\ overflow_checks \in BOOLEAN
    /\ pc = "start"
    /\ value = NoValue
    /\ fpos = 0
    /\ part_upload_responses = <<>>
    /\ complete_resp = NoComplete
    /\ sent = <<>>
    /\ recv = <<>>
    /\ result = NoResult
    /\ timeout = 0
    /\ elapsed = 0
    /\ polls = NoPolls
    /\ env = [delays |-> {SlowQuery}, oversleeps |-> {0},
              bodies |-> {Recipes(<<Some("AVAILABLE")>>),
                          Recipes(<<Some("PROCESSING")>>)}]
    /\ hin = NoHarness
    /\ hout = NoHarness

Next ==
    \/ StatFails
    \/ Register
    \/ DirectPut
    \/ PartPut
    \/ Complete
    \/ PollQuery
    \/ PollSleep

Spec == Init /\ [][Next]_vars

----------------------------------------------------------------------------
(* The dispatcher: the tunneling decision and the shape of the request of  *)
(* call. A URL and a query string enter only by their lengths: a base URL  *)
(* is [valid, len, query], the length of its parsed form and whether it    *)
(* already holds a query; a key or value is [plain, escaped], the numbers  *)
(* of its characters that are written as they are and as %XX.              *)

\* method.to_ascii_uppercase()
to_ascii_uppercase(m) ==
    CASE m = "get" -> "GET"
      [] m = "delete" -> "DELETE"
      [] m = "post" -> "POST"
      [] OTHER -> m

\* form_urlencoded: length of a key or value once encoded.
EncodedLen(x) == x.plain + 3 * x.escaped

RECURSIVE PairsLen(_)
PairsLen(pairs) ==
    IF pairs = <<>> THEN 0
    ELSE EncodedLen(Head(pairs)[1]) + 1 + EncodedLen(Head(pairs)[2])
         + (IF Len(pairs) > 1 THEN 1 ELSE 0) + PairsLen(Tail(pairs))

\* url.query_pairs_mut().append_pair(..); url.as_str().len(): the pairs follow
\* a '?', or a '&' when the URL holds a query already.
AssembledLen(base, pairs) ==
    base.len + (IF base.query = "empty" THEN 0 ELSE 1) + PairsLen(pairs)

\* Variant: the threshold itself does not tunnel yet.
should_tunnel_above(mode, method, base_url, query_pairs) ==
    IF method \notin {"GET", "DELETE"} THEN [ok |-> TRUE, v |-> FALSE]
    ELSE IF mode = "never" THEN [ok |-> TRUE, v |-> FALSE]
    ELSE IF mode = "always" THEN [ok |-> TRUE, v |-> query_pairs # <<>>]
    ELSE IF query_pairs = <<>> THEN [ok |-> TRUE, v |-> FALSE]
    ELSE IF ~base_url.valid THEN [ok |-> FALSE, v |-> FALSE]
    ELSE [ok |-> TRUE, v |-> AssembledLen(base_url, query_pairs) > TunnelThreshold]

\* RestliClient::should_tunnel; ok is FALSE when Url::parse fails.
should_tunnel(mode, method, base_url, query_pairs) ==
    IF method \notin {"GET", "DELETE"} THEN [ok |-> TRUE, v |-> FALSE]
    ELSE IF mode = "never" THEN [ok |-> TRUE, v |-> FALSE]
    ELSE IF mode = "always" THEN [ok |-> TRUE, v |-> query_pairs # <<>>]
    ELSE IF query_pairs = <<>> THEN [ok |-> TRUE, v |-> FALSE]
    ELSE IF ~base_url.valid THEN [ok |-> FALSE, v |-> FALSE]
    ELSE [ok |-> TRUE, v |-> AssembledLen(base_url, query_pairs) >= TunnelThreshold]

linkedin_version == "202401"
restli_protocol_version == "2.0.0"

\* RequestBuilder::header: the name is lower-cased (http::HeaderName) and
\* the value is appended to the request's header map; a value already held
\* under the same name stays.
header(hs, name, v) == Append(hs, <<AsciiLower(name), v>>)

\* for (k, v) in headers { req = req.header(k, v); }
header_all(hs, headers) ==
    LET RECURSIVE put(_, _)
        put(acc, rest) ==
            IF rest = <<>> THEN acc
            ELSE put(header(acc, Head(rest)[1], Head(rest)[2]), Tail(rest))
    IN  put(hs, headers)

\* The five headers call sets on every request (client.rs:121-129).
default_headers ==
    <<<<"Authorization", <<"Bearer ", access_token>>>>,
      <<"Linkedin-Version", <<linkedin_version>>>>,
      <<"X-LinkedIn-Version", <<linkedin_version>>>>,
      <<"X-Restli-Protocol-Version", <<restli_protocol_version>>>>,
      <<"Accept", <<"application/json">>>>>>

\* The headers of the request of call: what the dispatch set (the method
\* override, the content type of a form or JSON body), then the defaults,
\* then the caller's headers.
call_headers(dispatch, headers) ==
    header_all(header_all(dispatch, default_headers), headers)

\* Variant: a tunneled request keeps the parameters in the query string.
call_build_query_kept(mode, method0, url, query_pairs, headers, body) ==
    LET method == to_ascii_uppercase(method0)
        st == should_tunnel(mode, method, url, query_pairs)
        none == [some |-> FALSE, v |-> ""]
    IN  IF ~st.ok
        THEN [ok |-> FALSE, err |-> "parse url", tunnel |-> st, method |-> method,
              url |-> url, override |-> none, query |-> <<>>, form |-> <<>>,
              json |-> FALSE, headers |-> <<>>]
        ELSE IF st.v
        THEN [ok |-> TRUE, err |-> "", tunnel |-> st, method |-> "POST",
              url |-> url, override |-> [some |-> TRUE, v |-> method],
              query |-> query_pairs, form |-> <<>>, json |-> FALSE,
              headers |-> call_headers(
                  header(<<>>, "X-HTTP-Method-Override", <<method>>), headers)]
        ELSE IF method \in {"GET", "DELETE"}
        THEN [ok |-> TRUE, err |-> "", tunnel |-> st, method |-> method,
              url |-> url, override |-> none, query |-> query_pairs,
              form |-> <<>>, json |-> FALSE,
              headers |-> call_headers(<<>>, headers)]
        ELSE IF method \in {"POST", "PUT"}
        THEN [ok |-> TRUE, err |-> "", tunnel |-> st, method |-> method,
              url |-> url, override |-> none, query |-> query_pairs,
              form |-> <<>>, json |-> body,
              headers |-> call_headers(
                  IF body THEN header(<<>>, "Content-Type", <<"application/json">>)
                          ELSE <<>>, headers)]
        ELSE [ok |-> FALSE, err |-> "unsupported method", tunnel |-> st,
              method |-> method, url |-> url, override |-> none,
              query |-> <<>>, form |-> <<>>, json |-> FALSE, headers |-> <<>>]

\* The request call builds (client.rs:84-133), or the error it returns: the
\* method, the URL, the query string, the form body, whether the JSON body
\* is attached, and the headers.
call_build(mode, method0, url, query_pairs, headers, body) ==
    LET method == to_ascii_uppercase(method0)
        st == should_tunnel(mode, method, url, query_pairs)
        none == [some |-> FALSE, v |-> ""]
    IN  IF ~st.ok
        THEN [ok |-> FALSE, err |-> "parse url", tunnel |-> st, method |-> method,
              url |-> url, override |-> none, query |-> <<>>, form |-> <<>>,
              json |-> FALSE, headers |-> <<>>]
        ELSE IF st.v
        THEN [ok |-> TRUE, err |-> "", tunnel |-> st, method |-> "POST",
              url |-> url, override |-> [some |-> TRUE, v |-> method],
              query |-> <<>>, form |-> query_pairs, json |-> FALSE,
              headers |-> call_headers(
                  header(header(<<>>, "X-HTTP-Method-Override", <<method>>),
                         "Content-Type", <<"application/x-www-form-urlencoded">>),
                  headers)]
        ELSE IF method \in {"GET", "DELETE"}
        THEN [ok |-> TRUE, err |-> "", tunnel |-> st, method |-> method,
              url |-> url, override |-> none, query |-> query_pairs,
              form |-> <<>>, json |-> FALSE,
              headers |-> call_headers(<<>>, headers)]
        ELSE IF method \in {"POST", "PUT"}
        THEN [ok |-> TRUE, err |-> "", tunnel |-> st, method |-> method,
              url |-> url, override |-> none, query |-> query_pairs,
              form |-> <<>>, json |-> body,
              headers |-> call_headers(
                  IF body THEN header(<<>>, "Content-Type", <<"application/json">>)
                          ELSE <<>>, headers)]
        ELSE [ok |-> FALSE, err |-> "unsupported method", tunnel |-> st,
              method |-> method, url |-> url, override |-> none,
              query |-> <<>>, form |-> <<>>, json |-> FALSE, headers |-> <<>>]

\* Header maps a caller may pass (a BTreeMap: in key order).
CallerHeaders ==
    {<<>>,
     <<<<"Accept", <<"text/plain">>>>>>,
     <<<<"X-Custom", <<"1">>>>, <<"authorization", <<"Bearer ", "OTHER">>>>>>}

Methods == {"GET", "get", "DELETE", "POST", "PUT", "PATCH"}
TunnelModes == {"auto", "always", "never"}
BaseUrls == {[valid |-> ok, len |-> 30, query |-> q] :
               ok \in BOOLEAN, q \in {"none", "empty", "nonempty"}}
QueryKeys == {[plain |-> 1, escaped |-> 0]}
QueryValues == {[plain |-> n, escaped |-> e] :
                  n \in {0, TunnelThreshold - 37, TunnelThreshold - 34,
                         TunnelThreshold - 33},
                  e \in {0, 1}}
RECURSIVE QueryLists(_)
QueryLists(n) ==
    IF n = 0 THEN {<<>>}
    ELSE {Append(l, <<k, v>>) :
            l \in QueryLists(n - 1), k \in QueryKeys, v \in QueryValues}

Idle ==
    /\ kind = "none"
    /\ file_size = 0
    /\ wait = FALSE
    /\ overflow_checks = FALSE
    /\ pc = "idle"
    /\ value = NoValue
    /\ fpos = 0
    /\ part_upload_responses = <<>>
    /\ complete_resp = NoComplete
    /\ sent = <<>>
    /\ recv = <<>>
    /\ result = NoResult
    /\ timeout = 0
    /\ elapsed = 0
    /\ polls = NoPolls
    /\ env = [delays |-> {0}, oversleeps |-> {0}, bodies |-> {}]

InitCall ==
    /\ Idle
    /\ hin \in {[op |-> "call", method |-> m, tunnel_mode |-> t, url |-> u,
                 query |-> q, headers |-> h, body |-> b] :
                  m \in Methods, t \in TunnelModes, u \in BaseUrls,
                  q \in UNION {QueryLists(n) : n \in 0..MaxPairs},
                  h \in CallerHeaders, b \in BOOLEAN}
    /\ hout = NoHarness

\* call up to req.send().
CallBuild ==
    /\ hin.op = "call" /\ hout = NoHarness
    /\ hout' = call_build(hin.tunnel_mode, hin.method, hin.url, hin.query,
                          hin.headers, hin.body)
    /\ UNCHANGED <<uploadVars, pollVars, hin>>

NextCall == CallBuild

SpecCall == InitCall /\ [][NextCall]_vars

----------------------------------------------------------------------------
(* Specification of the response handling of call and put_bytes: any       *)
(* status and any body text.                                               *)

Statuses == {199, 200, 204, 299, 300, 404, 500}

RECURSIVE Texts(_)
Texts(n) ==
    IF n = 0 THEN {<<>>}
    ELSE Texts(n - 1)
         \cup {Append(t, c) : t \in {x \in Texts(n - 1) : Len(x) = n - 1},
                              c \in Chars}

\* call from resp.status() on (client.rs:137-164).
call_respond(status, raw_headers, readable, text) ==
    IF ~readable
    THEN [ok |-> FALSE, err |-> "read response body", status |-> 0,
          headers |-> <<>>, body |-> JNull]
    ELSE finish(status, out_headers(raw_headers), decode_body(text))

\* put_bytes from resp.status() on (client.rs:190-217).
put_bytes_respond(status, raw_headers, readable, text) ==
    IF ~readable
    THEN [ok |-> FALSE, err |-> "read upload response body", status |-> 0,
          headers |-> <<>>, body |-> JNull]
    ELSE finish(status, out_headers(raw_headers), decode_body(text))

InitResponse ==
    /\ Idle
    /\ hin \in {[op |-> f, status |-> st, headers |-> <<>>, readable |-> rd,
                 text |-> tx] :
                  f \in {"call", "put_bytes"}, st \in Statuses,
                  rd \in BOOLEAN, tx \in Texts(MaxText)}
    /\ hout = NoHarness

CallRespond ==
    /\ hin.op = "call" /\ hout = NoHarness
    /\ hout' = call_respond(hin.status, hin.headers, hin.readable, hin.text)
    /\ UNCHANGED <<uploadVars, pollVars, hin>>

PutBytesRespond ==
    /\ hin.op = "put_bytes" /\ hout = NoHarness
    /\ hout' = put_bytes_respond(hin.status, hin.headers, hin.readable, hin.text)
    /\ UNCHANGED <<uploadVars, pollVars, hin>>

NextResponse ==
    \/ CallRespond
    \/ PutBytesRespond

SpecResponse == InitResponse /\ [][NextResponse]_vars

----------------------------------------------------------------------------
(* Specification of the response headers of call and put_bytes: any header *)
(* lines, repeated names and values that are no text included.             *)

HeaderLines ==
    {[name |-> "Authorization", value |-> <<"s">>, text |-> TRUE],
     [name |-> "AUTHORIZATION", value |-> <<"t">>, text |-> TRUE],
     [name |-> "ETag", value |-> <<Q, "e1", Q>>, text |-> TRUE],
     [name |-> "ETag", value |-> <<"bin">>, text |-> FALSE],
     [name |-> "Set-Cookie", value |-> <<"a">>, text |-> TRUE],
     [name |-> "Set-Cookie", value |-> <<"b">>, text |-> TRUE],
     [name |-> "Set-Cookie", value |-> <<"bin">>, text |-> FALSE]}

RECURSIVE HeaderLists(_)
HeaderLists(n) ==
    IF n = 0 THEN {<<>>}
    ELSE HeaderLists(n - 1)
         \cup {Append(l, h) : l \in {x \in HeaderLists(n - 1) : Len(x) = n - 1},
                              h \in HeaderLines}

InitHeaders ==
    /\ Idle
    /\ hin \in {[op |-> f, status |-> st, headers |-> hs, readable |-> TRUE,
                 text |-> <<>>] :
                  f \in {"call", "put_bytes"}, st \in {200, 201, 404},
                  hs \in HeaderLists(MaxHeaders)}
    /\ hout = NoHarness

SpecHeaders == InitHeaders /\ [][NextResponse]_vars

----------------------------------------------------------------------------
(* paginate_all and next_link_href (src/src/main.rs).                      *)

NoneText == [some |-> FALSE, v |-> ""]

\* next_link_href on the links array: an entry without a string rel ends the
\* search (the `?` inside the loop), an entry with rel "next" and a string
\* href is the answer, any other entry is passed over.
RECURSIVE first_next_href(_)
first_next_href(links) ==
    IF links = <<>> THEN NoneText
    ELSE IF ~Head(links).rel.some THEN NoneText
    ELSE IF Head(links).rel.v = "next" /\ Head(links).href.some
         THEN Head(links).href
         ELSE first_next_href(Tail(links))

\* next_link_href: None unless body.paging.links is an array.
next_link_href(body) ==
    IF ~body.links.isArray THEN NoneText ELSE first_next_href(body.links.items)

\* for item in arr { items.push(item.clone()); if max_items > 0 &&
\* items.len() >= max_items { return } }: the items after the loop, and
\* whether the loop returned.
RECURSIVE push_items(_, _, _)
push_items(items, arr, max_items) ==
    IF arr = <<>> THEN [items |-> items, full |-> FALSE]
    ELSE IF max_items > 0 /\ Len(items) + 1 >= max_items
         THEN [items |-> Append(items, Head(arr)), full |-> TRUE]
         ELSE push_items(Append(items, Head(arr)), Tail(arr), max_items)

\* Variant: the limit stops the loop one page late.
page_limit_reached_late(max_pages, pages) == max_pages > 0 /\ pages > max_pages

\* if max_pages > 0 && pages >= max_pages { break; }
page_limit_reached(max_pages, pages) == max_pages > 0 /\ pages >= max_pages

\* The links a page may carry.
NextLink == [rel |-> Some("next"), href |-> Some("/next")]
LinkLists ==
    {<<>>,
     <<NextLink>>,
     <<[rel |-> Some("prev"), href |-> Some("/prev")], NextLink>>,
     <<[rel |-> Some("next"), href |-> NoneText], NextLink>>,
     <<[rel |-> NoneText, href |-> Some("/x")], NextLink>>}

\* The pages the server may answer as page number n: without an elements
\* array, or with up to MaxPageItems elements and any links, or without a
\* links array.
PageBodies(n) ==
    {[elements |-> [isArray |-> FALSE, items |-> <<>>],
      links |-> [isArray |-> TRUE, items |-> <<NextLink>>]]}
    \cup {[elements |-> [isArray |-> TRUE, items |-> [i \in 1..k |-> <<n, i>>]],
           links |-> [isArray |-> TRUE, items |-> l]] :
            k \in 0..MaxPageItems, l \in LinkLists}
    \cup {[elements |-> [isArray |-> TRUE, items |-> [i \in 1..k |-> <<n, i>>]],
           links |-> [isArray |-> FALSE, items |-> <<>>]] :
            k \in 0..MaxPageItems}

\* The model follows paginate_all for at most CallCap requests.
CallCap == MaxLimit + 1

NoPage == [elements |-> [isArray |-> FALSE, items |-> <<>>],
           links |-> [isArray |-> FALSE, items |-> <<>>]]

\* resp.body = json!({"elements": items}); return Ok(resp)
PaginateOk(st, items) ==
    [st EXCEPT !.pc = "done", !.items = items,
               !.result = [kind |-> "ok", elements |-> items]]

\* client.call(..)? failed.
PaginateErr(st) ==
    [st EXCEPT !.pc = "done", !.requests = @ + 1,
               !.result = [kind |-> "err", elements |-> <<>>]]

InitPaginate ==
    /\ Idle
    /\ hin \in {[op |-> "paginate", max_pages |-> mp, max_items |-> mi] :
                  mp \in 0..MaxLimit, mi \in 0..MaxLimit}
    /\ hout = NoHarness

\* The first call and the locals (main.rs:715-717).
PaginateFirst ==
    /\ hin.op = "paginate" /\ hout = NoHarness
    /\ \E failed \in BOOLEAN, b \in PageBodies(1) :
         LET st == [pc |-> "loop", pages |-> 1, items |-> <<>>, requests |-> 0,
                    resp |-> NoPage,
                    result |-> [kind |-> "none", elements |-> <<>>]]
         IN  hout' = IF failed THEN PaginateErr(st)
                     ELSE [st EXCEPT !.requests = 1, !.resp = b]
    /\ UNCHANGED <<uploadVars, pollVars, hin>>

\* One iteration of the loop (main.rs:719-739), the next call included, or
\* the return after it (741-742).
PaginateLoop ==
    /\ hin.op = "paginate" /\ hout # NoHarness /\ hout.pc = "loop"
    /\ LET body == hout.resp
           pushed == push_items(hout.items, body.elements.items, hin.max_items)
           next == next_link_href(body)
       IN  IF ~body.elements.isArray
           THEN hout' = PaginateOk(hout, hout.items)
           ELSE IF pushed.full \/ ~next.some
                   \/ page_limit_reached(hin.max_pages, hout.pages)
           THEN hout' = PaginateOk(hout, pushed.items)
           ELSE /\ hout.requests < CallCap
                /\ \E failed \in BOOLEAN, b \in PageBodies(hout.pages + 1) :
                     hout' = IF failed
                             THEN PaginateErr([hout EXCEPT !.items = pushed.items,
                                                           !.pages = @ + 1])
                             ELSE [hout EXCEPT !.items = pushed.items,
                                               !.pages = @ + 1,
                                               !.requests = @ + 1,
                                               !.resp = b]
    /\ UNCHANGED <<uploadVars, pollVars, hin>>

NextPaginate ==
    \/ PaginateFirst
    \/ PaginateLoop

\* Every call returns: a step that can be taken is taken.
SpecPaginate == InitPaginate /\ [][NextPaginate]_vars /\ WF_vars(NextPaginate)

----------------------------------------------------------------------------
(* Specification of wait_for_asset_available on its own: any timeout, any  *)
(* asset handle, status queries and sleeps of any duration.                *)

WaitHandles == {<<"urn", ":", "li", ":", "A1">>, <<"A2">>, <<"urn", ":">>}

InitWait ==
    /\ kind = "wait"
    /\ file_size = 0
    /\ wait = TRUE
    /\ overflow_checks = FALSE
    /\ pc = "poll"
    /\ value \in {[NoValue EXCEPT !.hasValue = TRUE, !.asset = Some(h)] :
                    h \in WaitHandles}
    /\ fpos = 0
    /\ part_upload_responses = <<>>
    /\ complete_resp = NoComplete
    /\ sent = <<>>
    /\ recv = <<>>
    /\ result = NoResult
    /\ timeout \in 0..MaxTimeout
    /\ elapsed = 0
    /\ polls = NoPolls
    /\ env = [delays |-> 0..MaxDelay, oversleeps |-> 0..MaxOversleep,
              bodies |-> StatusBodies]
    /\ hin = NoHarness
    /\ hout = NoHarness

NextWait ==
    \/ PollQuery
    \/ PollSleep

SpecWait == InitWait /\ [][NextWait]_vars

\* The same wait when every status query returns and every sleep ends: the
\* calls block, none of them forever.
SpecWaitFair == InitWait /\ [][NextWait]_vars /\ WF_vars(NextWait)

----------------------------------------------------------------------------
(* Properties of one upload (specification Spec).                          *)

IsRegister(rq) ==
    rq.fn = "call" /\ rq.query = <<<<"action", "registerUpload">>>>
IsComplete(rq) ==
    rq.fn = "call" /\ rq.query = <<<<"action", "completeMultiPartUpload">>>>
IsPut(rq) == rq.fn = "put_bytes"
IsDirectPut(rq) == IsPut(rq) /\ rq.url = UploadUrl
IsPartPut(rq) == IsPut(rq) /\ rq.url # UploadUrl
Parts == value.multipart.partUploadRequests.items

\* C1: the registration request of upload_video carries
\* supportedUploadMechanism = [MULTIPART_UPLOAD] and fileSize exactly when the
\* file is larger than 209715200 bytes; at 209715200 bytes or less it carries
\* neither.
C1_MultipartHintIffLarge ==
    kind = "video" =>
      \A j \in DOMAIN sent :
        IsRegister(sent[j]) =>
          LET b == sent[j].body
          IN  /\ (file_size > 209715200) <=>
                    (/\ b.supportedUploadMechanism = Some(<<"MULTIPART_UPLOAD">>)
                     /\ b.fileSize = Some(file_size))
              /\ (file_size <= 209715200) =>
                    (~b.supportedUploadMechanism.some /\ ~b.fileSize.some)

C1_Witness ==
    /\ kind = "video" /\ file_size = 209715201
    /\ Len(sent) >= 1 /\ IsRegister(sent[1])
    /\ sent[1].body.fileSize.some

\* The ETag header of an answer, as the server sent it.
RawETag(r) ==
    LET hs == SelectSeq(r.headers, LAMBDA h : h.name \in {"ETag", "etag", "Etag"})
    IN  hs[Len(hs)].value

\* e is raw without its surrounding double quotes.
IsStripped(raw, e) ==
    /\ e = <<>> \/ (e[1] # Q /\ e[Len(e)] # Q)
    /\ \E a \in 0..Len(raw) :
         /\ a + Len(e) <= Len(raw)
         /\ SubSeq(raw, a + 1, a + Len(e)) = e
         /\ \A k \in 1..Len(raw) : (k <= a \/ k > a + Len(e)) => raw[k] = Q

\* C3: the finalize request lists one partUploadResponses entry per registered
\* part; entry i holds the ETag answered to the PUT of part i, without its
\* surrounding double quotes, and httpStatusCode 200, in the server's order.
C3_FinalizeListsEveryPartETag ==
    \A j \in DOMAIN sent :
      IsComplete(sent[j]) =>
        LET prs == sent[j].body.partUploadResponses
        IN  /\ Len(prs) = Len(Parts)
            /\ j = Len(Parts) + 2
            /\ \A i \in 1..Len(Parts) :
                 /\ IsPut(sent[i + 1]) /\ sent[i + 1].url = Parts[i].url.v
                 /\ prs[i].httpStatusCode = 200
                 /\ IsStripped(RawETag(recv[i + 1]), prs[i].headers.ETag)

C3_Witness ==
    /\ Len(Parts) = 2 /\ Len(sent) = 4 /\ IsComplete(sent[4])
    /\ RawETag(recv[2]) = <<Q, "e1", Q>>
    /\ RawETag(recv[3]) = <<"e2">>
    /\ sent[4].body.partUploadResponses[1].headers.ETag = <<"e1">>

\* C4: the PUT of the direct path of upload_video carries the bearer token.
C4_VideoDirectPutCarriesBearer ==
    kind = "video" =>
      \A j \in DOMAIN sent :
        IsDirectPut(sent[j]) =>
          /\ sent[j].body = [off |-> 0, len |-> file_size]
          /\ \E k \in DOMAIN sent[j].headers : sent[j].headers[k] = BearerHeader

\* C5: no PUT to a part URL has the bearer token attached: it is made with
\* include_auth false, and put_bytes adds the bearer header only when
\* include_auth is true.
C5_PartPutsCarryNoBearer ==
    \A j \in DOMAIN sent :
      /\ IsPartPut(sent[j]) =>
           /\ ~sent[j].include_auth
           /\ \A k \in DOMAIN sent[j].headers : sent[j].headers[k] # BearerHeader
      /\ IsPut(sent[j]) =>
           (sent[j].include_auth <=>
              \E k \in DOMAIN sent[j].headers : sent[j].headers[k] = BearerHeader)

C5_Witness ==
    /\ Len(sent) >= 3 /\ IsPartPut(sent[2]) /\ IsPartPut(sent[3])
    /\ Len(sent[2].headers) = 3

\* The declared ranges are contiguous, do not overlap and cover [0, size).
Contiguous(parts, size) ==
    /\ \A i \in 1..Len(parts) :
         /\ parts[i].firstByte.some /\ parts[i].lastByte.some
         /\ parts[i].lastByte.v >= parts[i].firstByte.v
    /\ Len(parts) = 0 => size = 0
    /\ Len(parts) > 0 =>
         /\ parts[1].firstByte.v = 0
         /\ parts[Len(parts)].lastByte.v = size - 1
         /\ \A i \in 1..(Len(parts) - 1) :
              parts[i + 1].firstByte.v = parts[i].lastByte.v + 1

RECURSIVE BytesSent(_)
BytesSent(rqs) ==
    IF rqs = <<>> THEN 0
    ELSE (IF IsPut(Head(rqs)) THEN Head(rqs).body.len ELSE 0)
         + BytesSent(Tail(rqs))

\* C10: when the declared parts are contiguous and cover [0, fileSize) and
\* every PUT succeeded (the finalize request went out), the PUTs carried
\* fileSize bytes in total and the bytes of part i start at its firstByte.
C10_ContiguousPartsSendWholeFile ==
    \A j \in DOMAIN sent :
      (IsComplete(sent[j]) /\ Contiguous(Parts, file_size)) =>
        /\ BytesSent(sent) = file_size
        /\ \A i \in 1..Len(Parts) :
             /\ IsPut(sent[i + 1])
             /\ sent[i + 1].body.off = Parts[i].firstByte.v

C10_Witness ==
    /\ Len(Parts) = 2 /\ file_size = 2 /\ Contiguous(Parts, file_size)
    /\ Len(sent) = 4 /\ IsComplete(sent[4])
    /\ sent[3].body = [off |-> 1, len |-> 1]

IsStatusQuery(rq) == rq.fn = "call" /\ rq.method = "GET"

\* The answer is a failure of the request: no answer, or a non-2xx status.
Failed(r) == r.neterr \/ r.status \notin 200..299

\* The errors a failed step of an upload returns.
StepErrors ==
    {"stat", "open", "read part", "send request", "http",
     "missing response.value", "missing uploadMechanism.MediaUploadHttpRequest",
     "missing uploadUrl", "missing uploadMechanism", "missing multipart metadata",
     "missing mediaArtifact", "missing partUploadRequests", "missing part url",
     "missing firstByte", "missing lastByte",
     "missing ETag header for multipart part", "asset processing timeout"}

\* C11: every error is terminal and nothing is retried. A failed request is
\* the last request of the invocation and its error is the result; once the
\* invocation holds an error it has returned, and from then on no request is
\* sent and the error stays; after a failed or ETag-less part PUT no later
\* part is PUT and no finalize request exists; the registration, the PUT of
\* each part and the finalize request are each sent at most once.
C11_ErrorsAreTerminal ==
    /\ [](/\ \A j \in DOMAIN recv :
              Failed(recv[j]) =>
                /\ j = Len(recv) /\ Len(sent) = j
                /\ pc = "done" /\ result.kind = "err"
                /\ result.err = (IF recv[j].neterr THEN "send request" ELSE "http")
                /\ result.status = (IF recv[j].neterr THEN 0 ELSE recv[j].status)
          /\ (polls.queries > 0 /\ Failed(polls.answer)) =>
                /\ pc = "done" /\ result.kind = "err"
                /\ result.err = (IF polls.answer.neterr THEN "send request"
                                                        ELSE "http")
                /\ IsStatusQuery(sent[Len(sent)])
                /\ Len(sent) = Len(recv) + polls.queries
          /\ result.kind = "err" => (pc = "done" /\ result.err \in StepErrors)
          /\ result.err = "missing ETag header for multipart part" =>
                (IsPartPut(sent[Len(sent)]) /\ Len(recv) = Len(sent))
          /\ \A j \in DOMAIN sent :
                /\ IsRegister(sent[j]) => j = 1
                /\ IsDirectPut(sent[j]) => j = 2
                /\ IsPartPut(sent[j]) =>
                      (j - 1 <= Len(Parts) /\ sent[j].url = Parts[j - 1].url.v)
                /\ IsComplete(sent[j]) => j = Len(Parts) + 2)
    /\ [][result.kind = "err" => (sent' = sent /\ result' = result)]_vars

C11_Witness ==
    /\ Len(sent) = 2 /\ IsPartPut(sent[2]) /\ Len(Parts) = 2
    /\ Failed(recv[2])
    /\ pc = "done" /\ result.kind = "err" /\ result.status = 500

\* The registration succeeded and its value has been read.
Registered == Len(recv) >= 1 /\ ~Failed(recv[1]) /\ recv[1].body.hasValue

\* C12: upload_video takes its path from the mechanism in the registration
\* value, whatever it asked for: with the direct mechanism present the only
\* PUT is the direct one and no finalize request is sent; with the direct
\* mechanism absent and the multipart one present no direct PUT is sent and
\* the part loop runs; with neither the call fails without any PUT.
C12_PathFollowsMechanism ==
    (kind = "video" /\ Registered) =>
      LET v == recv[1].body
      IN  /\ v.http.present =>
                /\ \A j \in DOMAIN sent :
                      ~IsPartPut(sent[j]) /\ ~IsComplete(sent[j])
                /\ pc \notin {"parts", "panicked"}
                /\ (pc = "done" /\ result.kind = "ok") =>
                      (Len(sent) >= 2 /\ IsDirectPut(sent[2]))
                /\ v.http.uploadUrl.some =>
                      (pc = "direct" \/ result.err = "open"
                       \/ (Len(sent) >= 2 /\ IsDirectPut(sent[2])))
          /\ (~v.http.present /\ v.multipart.present) =>
                /\ \A j \in DOMAIN sent : ~IsDirectPut(sent[j])
                /\ pc # "direct"
                /\ result.err # "missing uploadMechanism"
                /\ (pc = "done" /\ result.kind = "ok") =>
                      (/\ \E j \in DOMAIN sent : IsComplete(sent[j])
                       /\ \A i \in 1..Len(Parts) : IsPartPut(sent[i + 1]))
          /\ (~v.http.present /\ ~v.multipart.present) =>
                /\ pc = "done" /\ result = Err("missing uploadMechanism")
                /\ Len(sent) = 1

\* Multipart was requested, both mechanisms came back, the direct one ran.
C12_Witness ==
    /\ kind = "video" /\ Registered /\ multipart_requested(file_size)
    /\ recv[1].body.http.present /\ recv[1].body.multipart.present
    /\ Len(sent) = 2 /\ IsDirectPut(sent[2])
    /\ pc = "done" /\ result.kind = "ok"

\* The bytes are in place: the direct PUT or the finalize request succeeded.
\* (recv holds the answers to every request but the status queries.)
Uploaded ==
    /\ Len(recv) >= 2 /\ ~Failed(recv[Len(recv)])
    /\ \/ IsDirectPut(sent[Len(recv)])
       \/ IsComplete(sent[Len(recv)])

Polling == pc \in {"poll", "sleep"} \/ polls.queries > 0

\* C13: status polling is entered exactly when a video upload with wait
\* requested and a string asset handle has its bytes in place: every status
\* query follows a successful direct PUT or finalize request, an image upload
\* sends no status query, and a video upload with wait requested but no asset
\* handle returns success without a status query.
C13_PollingIffVideoWaitAndHandle ==
    /\ Polling <=> (kind = "video" /\ wait /\ Registered
                    /\ recv[1].body.asset.some /\ Uploaded)
    /\ \A j \in DOMAIN sent :
          IsStatusQuery(sent[j]) =>
            (/\ Polling /\ j > Len(recv)
             /\ sent[j].url = <<"/assets/">> \o AssetId(recv[1].body.asset.v))
    /\ kind = "image" => ~Polling
    /\ (kind = "video" /\ wait /\ Uploaded /\ ~recv[1].body.asset.some) =>
          (pc = "done" /\ result.kind = "ok" /\ Len(sent) = Len(recv))

\* A multipart upload whose wait began after the finalize request.
C13_Witness ==
    /\ kind = "video" /\ wait /\ Uploaded /\ IsComplete(sent[Len(recv)])
    /\ polls.queries = 2 /\ IsStatusQuery(sent[Len(sent)])

\* The same upload without an asset handle: success, no status query.
C13_WitnessNoHandle ==
    /\ kind = "video" /\ wait /\ Uploaded /\ ~recv[1].body.asset.some
    /\ pc = "done" /\ result.kind = "ok"

\* C14: a successful upload_image and a successful direct upload_video
\* return the value of the registration response as it was received; a
\* successful multipart upload_video returns the composite of that value,
\* under register, and the body of the finalize response, under complete.
C14_ResultOnSuccess ==
    (pc = "done" /\ result.kind = "ok") =>
      /\ Registered /\ Uploaded
      /\ result.register = recv[1].body
      /\ IsDirectPut(sent[Len(recv)]) =>
            (~result.composite /\ result = OkValue(recv[1].body))
      /\ IsComplete(sent[Len(recv)]) =>
            /\ kind = "video"
            /\ result.composite
            /\ result.complete = recv[Len(recv)].body

C14_Witness ==
    /\ pc = "done" /\ result.kind = "ok" /\ wait /\ polls.queries >= 1
    /\ IsComplete(sent[Len(recv)])
    /\ recv[Len(recv)].body = [t |-> "object"]
    /\ result.complete = [t |-> "object"] /\ result.register.asset.some

C14_WitnessImage ==
    /\ pc = "done" /\ result.kind = "ok" /\ kind = "image"
    /\ result = OkValue(recv[1].body)

\* The answer to a PUT holds a readable ETag header.
HasETag(r) ==
    \E k \in DOMAIN r.headers :
        r.headers[k].name \in {"ETag", "etag", "Etag"} /\ r.headers[k].text

\* Part i of the registration value declares its url and both byte bounds.
PartComplete(p) == p.url.some /\ p.firstByte.some /\ p.lastByte.some

\* C18: a required field that is missing makes the upload fail and stops the
\* requests. A success means every field of the path taken was there (the
\* value, the mechanism, uploadUrl; or metadata, mediaArtifact, the part list,
\* every part's url and byte bounds and the ETag of every part's answer); a
\* field missing from the registration value leaves the registration as the
\* only request; a part lacking a field is never PUT and no finalize request
\* follows; an answer without ETag leaves its PUT as the last request.
C18_MissingFieldIsAnError ==
    /\ (Len(recv) >= 1 /\ ~Failed(recv[1])) =>
         LET v == recv[1].body
             direct == IF kind = "image" THEN TRUE ELSE v.http.present
             incomplete ==
                \/ ~v.hasValue
                \/ direct /\ (~v.http.present \/ ~v.http.uploadUrl.some)
                \/ ~direct /\ (\/ ~v.multipart.present
                                \/ ~v.multipart.metadata.some
                                \/ ~v.mediaArtifact.some
                                \/ ~v.multipart.partUploadRequests.isArray)
         IN  /\ incomplete =>
                  /\ pc = "done" /\ result.kind = "err"
                  /\ result.err \in
                       {"missing response.value", "missing uploadUrl",
                        "missing uploadMechanism.MediaUploadHttpRequest",
                        "missing uploadMechanism", "missing multipart metadata",
                        "missing mediaArtifact", "missing partUploadRequests"}
                  /\ Len(sent) = 1
             /\ (~incomplete /\ ~direct) =>
                  \A i \in 1..Len(v.multipart.partUploadRequests.items) :
                    LET p == v.multipart.partUploadRequests.items[i]
                    IN  /\ ~PartComplete(p) =>
                              /\ Len(sent) <= i
                              /\ Len(part_upload_responses) < i
                              /\ result.kind # "ok"
                              /\ (/\ pc = "done"
                                  /\ Len(part_upload_responses) = i - 1
                                  /\ result.err # "open") =>
                                   (/\ result.err \in
                                         {"missing part url", "missing firstByte",
                                          "missing lastByte"}
                                    /\ Len(sent) = i)
                        /\ (Len(recv) >= i + 1 /\ ~Failed(recv[i + 1])
                            /\ ~HasETag(recv[i + 1])) =>
                              /\ pc = "done"
                              /\ result = Err("missing ETag header for multipart part")
                              /\ Len(sent) = i + 1
                              /\ Len(part_upload_responses) = i - 1
    /\ (pc = "done" /\ result.kind = "ok") =>
         /\ recv[1].body.hasValue
         /\ IsDirectPut(sent[2]) => recv[1].body.http.uploadUrl.some
         /\ IsPartPut(sent[2]) \/ IsComplete(sent[2]) =>
               /\ recv[1].body.multipart.metadata.some
               /\ recv[1].body.mediaArtifact.some
               /\ \A i \in 1..Len(Parts) :
                     PartComplete(Parts[i]) /\ HasETag(recv[i + 1])

\* The second part's PUT is answered without an ETag.
C18_Witness ==
    /\ Len(Parts) = 2 /\ Len(sent) = 3 /\ Len(recv) = 3
    /\ ~Failed(recv[3]) /\ ~HasETag(recv[3])
    /\ pc = "done" /\ result = Err("missing ETag header for multipart part")

\* The second part lacks its lastByte: the first was PUT, the second is not.
C18_WitnessPartField ==
    /\ Len(Parts) = 2 /\ ~Parts[2].lastByte.some
    /\ Len(sent) = 2 /\ pc = "done" /\ result = Err("missing lastByte")

\* C20: every part that is PUT declares lastByte >= firstByte and its PUT
\* carries the lastByte - firstByte + 1 bytes of the file from firstByte on;
\* a part with lastByte < firstByte, or reaching past the end of the file, is
\* never PUT and the upload ends in an error.
C20_PartPutsCarryDeclaredRange ==
    /\ \A j \in DOMAIN sent :
          IsPartPut(sent[j]) =>
            LET p == Parts[j - 1]
            IN  /\ p.lastByte.v >= p.firstByte.v
                /\ sent[j].body.len = p.lastByte.v - p.firstByte.v + 1
                /\ sent[j].body.off = p.firstByte.v
                /\ sent[j].body.off + sent[j].body.len <= file_size
    /\ pc = "parts" =>
          \A i \in 1..Len(part_upload_responses) :
            Parts[i].lastByte.v >= Parts[i].firstByte.v

\* What holds of the parts whose range is well formed: they are PUT with
\* exactly their bytes, and one reaching past the end of the file is not PUT.
C20_WellFormedPartsCarryDeclaredRange ==
    \A j \in DOMAIN sent :
      (IsPartPut(sent[j]) /\ Parts[j - 1].lastByte.v >= Parts[j - 1].firstByte.v) =>
        /\ sent[j].body.len = Parts[j - 1].lastByte.v - Parts[j - 1].firstByte.v + 1
        /\ sent[j].body.off = Parts[j - 1].firstByte.v
        /\ sent[j].body.off + sent[j].body.len <= file_size

\* The headers of the PUT of part p: the two fixed ones, then the entries of
\* the part's headers object whose value is a string.
ExpectedPartHeaders(p) ==
    <<<<"Content-Type", <<"application/octet-stream">>>>,
      <<"Accept", <<"application/json">>>>>>
    \o (IF p.headers.kind = "object"
        THEN LET es == SelectSeq(p.headers.entries, LAMBDA e : e.v.some)
             IN  [k \in 1..Len(es) |-> <<es[k].k, es[k].v.v>>]
        ELSE <<>>)

\* C21: the part PUTs go out one at a time in the order of the server's
\* list: the k-th PUT is the PUT of part k, to that part's url with that
\* part's headers; it is sent only when the PUT of every part before it has
\* been answered with a 2xx status and an ETag; no part is PUT twice and the
\* answer to a PUT is in before the next request is sent.
C21_PartsInOrderOneAtATime ==
    \A j \in DOMAIN sent :
      IsPartPut(sent[j]) =>
        /\ j >= 2 /\ j - 1 <= Len(Parts)
        /\ sent[j].url = Parts[j - 1].url.v
        /\ sent[j].headers = ExpectedPartHeaders(Parts[j - 1])
        /\ Len(recv) >= j
        /\ \A k \in 2..(j - 1) :
              /\ IsPartPut(sent[k])
              /\ ~Failed(recv[k]) /\ HasETag(recv[k])
        /\ \A k \in DOMAIN sent : (k # j) => sent[k].url # sent[j].url

C21_Witness ==
    /\ Len(Parts) = 2 /\ Len(sent) = 3
    /\ sent[2].url = PartUrl(1) /\ sent[3].url = PartUrl(2)
    /\ sent[3].headers[3] = <<"X-Part", <<"p", 2>>>>
    /\ recv[2].status = 200 /\ Failed(recv[3])

\* C22: in a run of upload_video the requests go register, uploads,
\* finalize, status queries. The registration is the first request and is
\* sent once; the finalize request is sent at most once, never when the
\* value holds the direct mechanism, and only after a PUT of every listed
\* part was answered with a 2xx status and an ETag; every status query comes
\* after all other requests, on the multipart path after the finalize
\* request.
C22_RegisterUploadsFinalizePoll ==
    (kind = "video" /\ Len(sent) >= 1) =>
      /\ IsRegister(sent[1])
      /\ \A j \in DOMAIN sent :
            /\ IsRegister(sent[j]) => j = 1
            /\ IsPut(sent[j]) =>
                  (Registered /\ \A k \in 2..j : IsPut(sent[k]))
            /\ IsComplete(sent[j]) =>
                  /\ Registered /\ ~recv[1].body.http.present
                  /\ j = Len(Parts) + 2
                  /\ \A k \in DOMAIN sent : IsComplete(sent[k]) => k = j
                  /\ \A i \in 1..Len(Parts) :
                        /\ IsPartPut(sent[i + 1])
                        /\ sent[i + 1].url = Parts[i].url.v
                        /\ ~Failed(recv[i + 1]) /\ HasETag(recv[i + 1])
            /\ IsStatusQuery(sent[j]) =>
                  /\ \A k \in j..Len(sent) : IsStatusQuery(sent[k])
                  /\ \A k \in 1..Len(recv) : ~IsStatusQuery(sent[k])
                  /\ j > Len(recv)
                  /\ ~recv[1].body.http.present =>
                        (IsComplete(sent[Len(recv)]) /\ ~Failed(recv[Len(recv)]))
                  /\ recv[1].body.http.present => IsDirectPut(sent[Len(recv)])

C22_Witness ==
    /\ kind = "video" /\ Len(Parts) = 2 /\ Len(sent) = 5
    /\ IsRegister(sent[1]) /\ IsPartPut(sent[2]) /\ IsPartPut(sent[3])
    /\ IsComplete(sent[4]) /\ IsStatusQuery(sent[5])

\* The headers of the direct PUT of upload_image for the registration value
\* v: the two fixed ones, the bearer token, then the string-valued entries of
\* the mechanism's headers object.
ExpectedImageHeaders(v) ==
    <<<<"Content-Type", <<"application/octet-stream">>>>,
      <<"Accept", <<"application/json">>>>,
      <<"Authorization", <<"Bearer ", "TOKEN">>>>>>
    \o (IF v.http.headers.kind = "object"
        THEN LET es == SelectSeq(v.http.headers.entries, LAMBDA e : e.v.some)
             IN  [k \in 1..Len(es) |-> <<es[k].k, es[k].v.v>>]
        ELSE <<>>)

\* C23: upload_image registers with SYNCHRONOUS_UPLOAD as the only supported
\* mechanism and sends nothing but that registration and at most one PUT;
\* the PUT carries the whole file to the uploadUrl of the direct mechanism
\* with the bearer token and the response's headers; a success has made
\* exactly that PUT; without the direct mechanism or without its uploadUrl
\* the call fails and no PUT is sent.
C23_ImageRegistersThenPutsOnce ==
    (kind = "image" /\ Len(sent) >= 1) =>
      /\ IsRegister(sent[1])
      /\ sent[1].body.supportedUploadMechanism = Some(<<"SYNCHRONOUS_UPLOAD">>)
      /\ ~sent[1].body.fileSize.some
      /\ Len(sent) <= 2
      /\ Len(sent) = 2 =>
            /\ Registered
            /\ recv[1].body.http.present /\ recv[1].body.http.uploadUrl.some
            /\ sent[2].fn = "put_bytes" /\ sent[2].method = "PUT"
            /\ sent[2].url = recv[1].body.http.uploadUrl.v
            /\ sent[2].body = [off |-> 0, len |-> file_size]
            /\ sent[2].headers = ExpectedImageHeaders(recv[1].body)
      /\ (pc = "done" /\ result.kind = "ok") => Len(sent) = 2
      /\ (Registered /\ (~recv[1].body.http.present
                          \/ ~recv[1].body.http.uploadUrl.some)) =>
            /\ pc = "done" /\ result.kind = "err" /\ Len(sent) = 1
            /\ result.err \in {"missing uploadMechanism.MediaUploadHttpRequest",
                                "missing uploadUrl"}

C23_Witness ==
    /\ kind = "image" /\ Len(sent) = 2 /\ pc = "done" /\ result.kind = "ok"
    /\ recv[1].body.multipart.present
    /\ Len(sent[2].headers) = 4 /\ sent[2].body.len = 2

C23_WitnessNoUploadUrl ==
    /\ kind = "image" /\ Registered /\ recv[1].body.http.present
    /\ ~recv[1].body.http.uploadUrl.some
    /\ pc = "done" /\ result = Err("missing uploadUrl") /\ Len(sent) = 1

----------------------------------------------------------------------------
(* Properties of the wait (specification SpecWait).                        *)

TimedOut == pc = "done" /\ result.kind = "err"
            /\ result.err = "asset processing timeout"

\* Every recipe of a 2xx status answer reports AVAILABLE.
ReportsReady(r) ==
    /\ ~r.neterr /\ r.status \in 200..299
    /\ r.body.hasRecipes
    /\ \A i \in 1..Len(r.body.recipes) :
          r.body.recipes[i] = [some |-> TRUE, v |-> "AVAILABLE"]

\* C6: when the answer to the first status query reports every recipe ready,
\* the wait has returned success after that one query, without a sleep.
C6_ReadyAtFirstQueryReturnsAtOnce ==
    (polls.queries = 1 /\ ReportsReady(polls.answer)) =>
        /\ pc = "done" /\ result.kind = "ok"
        /\ polls.sleeps = 0
        /\ Len(sent) = 1

C6_Witness ==
    /\ polls.queries = 1 /\ ReportsReady(polls.answer)
    /\ Len(polls.answer.body.recipes) = 2
    /\ pc = "done" /\ result.kind = "ok"

\* C7 as stated: the timeout error comes no earlier than the timeout and no
\* later than the timeout plus one poll interval of 3 seconds.
C7_TimeoutWithinOneInterval ==
    TimedOut => (elapsed >= timeout /\ elapsed <= timeout + 3)

\* C7, amended: the timeout error comes no earlier than the timeout; the
\* deadline test before the last sleep saw less than the timeout, so the error
\* is later than the timeout by less than the last sleep plus the last status
\* query, and within 3 seconds of it when that query took no time and the
\* sleep did not overrun.
C7_TimeoutWithinLastSleepAndQuery ==
    TimedOut =>
        /\ elapsed >= timeout
        /\ polls.sleeps = 0 => elapsed = polls.lastDelay
        /\ polls.sleeps > 0 =>
              elapsed - polls.lastSleep - polls.lastDelay < timeout
        /\ (polls.lastDelay = 0 /\ polls.lastSleep <= 3) =>
              elapsed <= timeout + 3

C7_Witness ==
    /\ TimedOut /\ polls.sleeps >= 1 /\ polls.queries = polls.sleeps + 1
    /\ elapsed > timeout + 3

\* id is the text of handle after its last ':', or all of it without ':'.
IsTrailingSegment(handle, id) ==
    /\ \A k \in DOMAIN id : id[k] # ":"
    /\ \/ id = handle
       \/ /\ Len(handle) > Len(id)
          /\ handle[Len(handle) - Len(id)] = ":"
          /\ SubSeq(handle, Len(handle) - Len(id) + 1, Len(handle)) = id

\* C19: every status query of a wait is a GET of /assets/<id> asking for the
\* fields recipes,id,status, where <id> is the text after the last ':' of the
\* asset handle, or the whole handle when it holds no ':'; all queries of one
\* wait use the same path.
C19_StatusPathUsesTrailingSegment ==
    /\ Len(sent) = polls.queries
    /\ \A j \in DOMAIN sent :
          /\ sent[j].fn = "call" /\ sent[j].method = "GET"
          /\ sent[j].query = <<<<"fields", "recipes,id,status">>>>
          /\ Len(sent[j].url) >= 1 /\ sent[j].url[1] = "/assets/"
          /\ IsTrailingSegment(value.asset.v, Tail(sent[j].url))
          /\ sent[j] = sent[1]

C19_Witness ==
    /\ value.asset.v = <<"urn", ":", "li", ":", "A1">>
    /\ Len(sent) = 2 /\ sent[2].url = <<"/assets/", "A1">>

C19_WitnessNoColon ==
    /\ value.asset.v = <<"A2">>
    /\ Len(sent) = 2 /\ sent[2].url = <<"/assets/", "A2">>

\* The last status query was answered with a 2xx status.
Answered == polls.queries >= 1 /\ ~polls.answer.neterr
            /\ polls.answer.status \in 200..299

\* C24: a status response makes the wait succeed exactly when it holds a
\* recipes array whose every entry has the string status AVAILABLE, the
\* empty array included; after any other 2xx response the wait has not
\* succeeded: it goes on to sleep and query again, or the deadline has
\* passed and it returned the timeout error.
C24_ReadyIffEveryRecipeAvailable ==
    Answered =>
      /\ (pc = "done" /\ result.kind = "ok") <=> ReportsReady(polls.answer)
      /\ ReportsReady(polls.answer) => polls.sleeps = polls.queries - 1
      /\ ~ReportsReady(polls.answer) =>
            \/ /\ pc = "sleep" /\ result = NoResult /\ elapsed < timeout
               /\ polls.sleeps = polls.queries - 1
            \/ /\ pc = "poll" /\ result = NoResult
               /\ polls.sleeps = polls.queries
            \/ TimedOut /\ elapsed >= timeout

\* The empty recipes array counts as ready, after an earlier round.
C24_Witness ==
    /\ Answered /\ polls.queries = 2
    /\ polls.answer.body = [hasRecipes |-> TRUE, recipes |-> <<>>]
    /\ pc = "done" /\ result.kind = "ok"

\* An entry without a string status keeps the wait going.
C24_WitnessNotReady ==
    /\ Answered /\ polls.queries = 2 /\ pc = "sleep"
    /\ polls.answer.body.hasRecipes
    /\ Len(polls.answer.body.recipes) = 1
    /\ ~polls.answer.body.recipes[1].some

\* C25: the wait terminates when every status query returns and the clock
\* advances. It ends, with success, with the error of a failed status query
\* or with the timeout error, and has then made at least one status query,
\* also with a timeout of zero; it sleeps only while the deadline has not
\* passed, each sleep taking the clock 3 seconds further, so that the sleeps
\* are bounded by the timeout; after the query that found the deadline
\* passed there is no sleep and no query.
C25_WaitTerminates ==
    /\ <>(pc = "done")
    /\ [](pc = "done" =>
            /\ polls.queries >= 1 /\ polls.sleeps = polls.queries - 1
            /\ \/ result.kind = "ok"
               \/ result.kind = "err"
                  /\ result.err \in {"send request", "http",
                                      "asset processing timeout"})
    /\ [](pc = "sleep" => elapsed < timeout)
    /\ [](/\ elapsed >= 3 * polls.sleeps
          /\ polls.sleeps >= 1 => 3 * (polls.sleeps - 1) < timeout)
    /\ [][pc = "done" => UNCHANGED <<polls, elapsed, sent, result>>]_vars

\* A timeout of zero: one query, no sleep, the timeout error.
C25_Witness ==
    /\ timeout = 0 /\ TimedOut /\ polls.queries = 1 /\ polls.sleeps = 0
    /\ Len(sent) = 1

----------------------------------------------------------------------------
(* Properties of the wait inside an upload (specification Spec).           *)

\* C26: when the wait of upload_video ends in the timeout or in a failed
\* status query, after the bytes were uploaded (and finalized on the
\* multipart path), upload_video returns that error and neither the
\* registration value nor the composite; the failed or last status query is
\* the last request, and nothing is sent once the error is held.
C26_WaitErrorIsTheResult ==
    /\ [](( /\ kind = "video" /\ polls.queries >= 1
            /\ \/ Failed(polls.answer)
               \/ ~ReportsReady(polls.answer) /\ elapsed >= timeout) =>
            /\ Uploaded
            /\ pc = "done" /\ result.kind = "err"
            /\ result.err =
                 (IF polls.answer.neterr THEN "send request"
                  ELSE IF Failed(polls.answer) THEN "http"
                  ELSE "asset processing timeout")
            /\ result.register = NoValue /\ ~result.composite
            /\ result.complete = NullBody
            /\ IsStatusQuery(sent[Len(sent)])
            /\ Len(sent) = Len(recv) + polls.queries)
    /\ [][(polls.queries >= 1 /\ result.kind = "err") =>
             (sent' = sent /\ result' = result)]_vars

\* The multipart upload went through and the wait then timed out.
C26_Witness ==
    /\ kind = "video" /\ Uploaded /\ IsComplete(sent[Len(recv)])
    /\ polls.queries = 2 /\ ~Failed(polls.answer)
    /\ elapsed >= timeout
    /\ pc = "done" /\ result = Err("asset processing timeout")

\* The direct upload went through and a status query then failed.
C26_WitnessQueryFailed ==
    /\ kind = "video" /\ Uploaded /\ IsDirectPut(sent[Len(recv)])
    /\ polls.queries = 1 /\ polls.answer.status = 404
    /\ pc = "done" /\ result.kind = "err" /\ result.status = 404

----------------------------------------------------------------------------
(* Properties of the tunneling decision (specification SpecCall).          *)

\* C2: the tunneling decision of call is: the method is GET or DELETE, the
\* query set is not empty, and the mode is always, or auto with an assembled
\* URL of at least 3800 characters. Auto does not tunnel at 3799 and tunnels
\* at 3800, never does not tunnel, always tunnels a GET or DELETE with a
\* query parameter, POST and PUT never tunnel. (Url::parse failing, under
\* auto only, ends the call before any decision.)
C2_TunnelDecision ==
    hout # NoHarness =>
      LET m == to_ascii_uppercase(hin.method)
          n == AssembledLen(hin.url, hin.query)
          decided == hout.tunnel.ok
          tunnels == hout.tunnel.v
      IN  /\ hin.url.valid => decided
          /\ ~decided => (hin.tunnel_mode = "auto" /\ m \in {"GET", "DELETE"}
                          /\ hin.query # <<>> /\ ~hout.ok)
          /\ decided =>
               /\ tunnels <=>
                    (/\ m \in {"GET", "DELETE"}
                     /\ hin.query # <<>>
                     /\ \/ hin.tunnel_mode = "always"
                        \/ hin.tunnel_mode = "auto" /\ n >= 3800)
               /\ (hin.tunnel_mode = "auto" /\ n = 3799) => ~tunnels
               /\ (hin.tunnel_mode = "auto" /\ n = 3800 /\ m = "GET") => tunnels
               /\ hin.tunnel_mode = "never" => ~tunnels
               /\ (hin.tunnel_mode = "always" /\ m \in {"GET", "DELETE"}
                   /\ Len(hin.query) >= 1) => tunnels
               /\ m \in {"POST", "PUT"} => ~tunnels

C2_Witness ==
    /\ hout # NoHarness /\ hin.method = "GET" /\ hin.tunnel_mode = "auto"
    /\ AssembledLen(hin.url, hin.query) = 3800
    /\ hout.tunnel.ok /\ hout.tunnel.v /\ hout.method = "POST"

\* The values a request carries under a header name, in order.
ValuesOf(hs, name) ==
    LET es == SelectSeq(hs, LAMBDA e : e[1] = AsciiLower(name))
    IN  [i \in 1..Len(es) |-> es[i][2]]

\* The value the caller gave under a name, if any (names compare without
\* case, as HTTP header names do).
CallerValue(headers, name) ==
    LET es == SelectSeq(headers, LAMBDA e : EqIgnoreAsciiCase(e[1], name))
    IN  IF es = <<>> THEN NoneStr ELSE Some(es[Len(es)][2])

\* C15: every request of call, tunneled or not, carries the bearer
\* Authorization header, the versioned API header, the protocol-version
\* header and Accept: application/json, except that where the caller gave a
\* header of the same name the request carries the caller's value under that
\* name and not the default.
C15_CallerHeadersOverrideDefaults ==
    (hout # NoHarness /\ hout.ok) =>
      /\ \A i \in DOMAIN default_headers :
           LET name == default_headers[i][1]
               given == CallerValue(hin.headers, name)
           IN  ValuesOf(hout.headers, name) =
                 <<IF given.some THEN given.v ELSE default_headers[i][2]>>
      /\ \A i \in DOMAIN hin.headers :
           ValuesOf(hout.headers, hin.headers[i][1]) = <<hin.headers[i][2]>>

\* What the requests do carry: every default, and after it the caller's value.
C15_DefaultsThenCallerValues ==
    (hout # NoHarness /\ hout.ok) =>
      \A i \in DOMAIN default_headers :
        LET name == default_headers[i][1]
            given == CallerValue(hin.headers, name)
        IN  ValuesOf(hout.headers, name) =
              <<default_headers[i][2]>>
              \o (IF given.some THEN <<given.v>> ELSE <<>>)

\* C16: when the tunneling decision is true the request is a POST to the same
\* URL with X-HTTP-Method-Override set to the upper-cased original method,
\* every query parameter in the form body and none in the query string; when
\* it is false the request has the original method and the parameters in the
\* query string, and the JSON body is attached exactly for a POST or PUT
\* that was given one.
C16_TunneledAndDirectDispatch ==
    (hout # NoHarness /\ hout.ok) =>
      LET m == to_ascii_uppercase(hin.method)
      IN  /\ hout.url = hin.url
          /\ hout.tunnel.v =>
                /\ hout.method = "POST"
                /\ ValuesOf(hout.headers, "X-HTTP-Method-Override") = <<<<m>>>>
                /\ hout.override = [some |-> TRUE, v |-> m]
                /\ hout.form = hin.query /\ hout.query = <<>>
                /\ ~hout.json
          /\ ~hout.tunnel.v =>
                /\ hout.method = m
                /\ ValuesOf(hout.headers, "X-HTTP-Method-Override") = <<>>
                /\ hout.query = hin.query /\ hout.form = <<>>
                /\ hout.json <=> (m \in {"POST", "PUT"} /\ hin.body)

C16_Witness ==
    /\ hout # NoHarness /\ hout.ok /\ hout.tunnel.v
    /\ hin.method = "DELETE" /\ hin.tunnel_mode = "always" /\ hin.body
    /\ Len(hin.query) = 2
    /\ hout.method = "POST" /\ hout.form = hin.query

C16_WitnessDirect ==
    /\ hout # NoHarness /\ hout.ok /\ ~hout.tunnel.v
    /\ hin.method = "PUT" /\ hin.body /\ Len(hin.query) = 1 /\ hout.json

----------------------------------------------------------------------------
(* Properties of the response handling (specification SpecResponse).       *)

Spaces(k) == [i \in 1..k |-> " "]
Ones(k) == [i \in 1..k |-> "1"]

\* The JSON documents of at most n characters over Chars with their values,
\* built from the grammar: a number is a run of digits; an array is '[',
\* values separated by ',', ']'; whitespace may surround every value and fill
\* an empty array.
RECURSIVE JsonValues(_)
RECURSIVE JsonPadded(_)
RECURSIVE JsonItems(_)
JsonValues(n) ==
    IF n <= 0 THEN {}
    ELSE {[text |-> Ones(k), val |-> JNumber(Decimal(k))] : k \in 1..n}
         \cup {[text |-> <<"[">> \o Spaces(k) \o <<"]">>, val |-> JArray(<<>>)] :
                 k \in 0..(n - 2)}
         \cup {[text |-> <<"[">> \o it.text \o <<"]">>, val |-> JArray(it.vals)] :
                 it \in JsonItems(n - 2)}

JsonPadded(n) ==
    UNION {{[text |-> Spaces(a) \o d.text \o Spaces(b), val |-> d.val] :
              d \in JsonValues(n - a - b)} : a \in 0..n, b \in 0..n}

JsonItems(n) ==
    IF n <= 0 THEN {}
    ELSE {[text |-> d.text, vals |-> <<d.val>>] : d \in JsonPadded(n)}
         \cup UNION {{[text |-> d.text \o <<",">> \o it.text,
                       vals |-> <<d.val>> \o it.vals] :
                        d \in {x \in JsonPadded(n - 2) : Len(x.text) = k},
                        it \in JsonItems(n - k - 1)} : k \in 1..(n - 2)}

JsonDocuments == JsonPadded(MaxText)

IsBlank(text) == \A i \in 1..Len(text) : text[i] = " "

\* The body the spec asks for: null for a blank text, the value of a JSON
\* document, the raw text as a string otherwise.
ExpectedBody(text) ==
    IF IsBlank(text) THEN [t |-> "null"]
    ELSE IF \E d \in JsonDocuments : d.text = text
    THEN (CHOOSE d \in JsonDocuments : d.text = text).val
    ELSE [t |-> "string", s |-> text]

\* C8: decoding the body never fails, in call and in put_bytes: a blank body
\* gives null, a JSON document its value, any other text a string holding
\* the raw text.
C8_BodyDecodingIsTotal ==
    (hout # NoHarness /\ hin.readable) =>
        /\ hout.err \in {"", "http"}
        /\ hout.body.t \in {"null", "string", "number", "array"}
        /\ hout.body = ExpectedBody(hin.text)

C8_Witness ==
    /\ hout # NoHarness /\ hin.readable /\ hin.op = "put_bytes"
    /\ hin.text = <<"[", "1", "x", "]">>
    /\ hout.body = [t |-> "string", s |-> hin.text]

\* C9: a response whose status is not 2xx makes call and put_bytes return an
\* error carrying the status and the decoded body, whether that body is null,
\* a JSON value or the fallback string; a RestliResponse is returned only for
\* a 2xx status.
C9_Non2xxIsAnError ==
    (hout # NoHarness /\ hin.readable) =>
        /\ hin.status \notin 200..299 =>
             /\ ~hout.ok
             /\ hout.err = "http"
             /\ hout.status = hin.status
             /\ hout.body = ExpectedBody(hin.text)
        /\ hout.ok => hin.status \in 200..299
        /\ hin.status \in 200..299 => hout.ok

C9_Witness ==
    /\ hout # NoHarness /\ hin.readable /\ hin.op = "call"
    /\ hin.status = 300 /\ hin.text = <<"[", "1", "]">>
    /\ ~hout.ok /\ hout.status = 300
    /\ hout.body = [t |-> "array", items |-> <<[t |-> "number", n |-> 1]>>]

----------------------------------------------------------------------------
(* Properties of the response headers (specification SpecHeaders).         *)

IsAuthorization(name) ==
    name \in {"authorization", "Authorization", "AUTHORIZATION"}

\* Line i of the response is kept: its value is text and it is no
\* authorization header.
Kept(i) == hin.headers[i].text /\ ~IsAuthorization(hin.headers[i].name)

SameName(a, b) ==
    \/ a = b
    \/ {a, b} \subseteq {"etag", "ETag"}
    \/ {a, b} \subseteq {"set-cookie", "Set-Cookie"}
    \/ IsAuthorization(a) /\ IsAuthorization(b)

\* C17 as stated: the returned header map holds no authorization entry and
\* holds every other response header whose value is text; a header whose
\* value is no text is dropped and the call does not fail for it.
C17_EveryTextHeaderReturned ==
    (hout # NoHarness /\ hout.ok) =>
      /\ \A k \in DOMAIN hout.headers : ~IsAuthorization(hout.headers[k][1])
      /\ \A i \in DOMAIN hin.headers :
            Kept(i) =>
              \E k \in DOMAIN hout.headers :
                /\ SameName(hout.headers[k][1], hin.headers[i].name)
                /\ hout.headers[k][2] = hin.headers[i].value

\* C17, amended: no authorization entry; one entry for every other header
\* name that came with a text value, holding the last text value that came
\* under that name; nothing else; a value that is no text is dropped and
\* leaves the outcome of the call to the status alone.
C17_LastTextValuePerName ==
    hout # NoHarness =>
      /\ hout.ok <=> hin.status \in 200..299
      /\ hout.ok =>
           /\ \A k \in DOMAIN hout.headers :
                 /\ ~IsAuthorization(hout.headers[k][1])
                 /\ \A l \in DOMAIN hout.headers :
                       hout.headers[k][1] = hout.headers[l][1] => k = l
                 /\ \E i \in DOMAIN hin.headers :
                       /\ Kept(i)
                       /\ SameName(hout.headers[k][1], hin.headers[i].name)
                       /\ hout.headers[k][2] = hin.headers[i].value
           /\ \A i \in DOMAIN hin.headers :
                 (/\ Kept(i)
                  /\ \A j \in DOMAIN hin.headers :
                        (j > i /\ Kept(j)) =>
                          ~SameName(hin.headers[j].name, hin.headers[i].name))
                 => \E k \in DOMAIN hout.headers :
                      /\ SameName(hout.headers[k][1], hin.headers[i].name)
                      /\ hout.headers[k][2] = hin.headers[i].value

\* An authorization line and an unreadable ETag beside a readable one.
C17_Witness ==
    /\ hout # NoHarness /\ hout.ok /\ hin.op = "put_bytes"
    /\ Len(hin.headers) = 2
    /\ hin.headers[1].name = "Authorization"
    /\ hin.headers[2] = [name |-> "ETag", value |-> <<Q, "e1", Q>>, text |-> TRUE]
    /\ hout.headers = <<<<"etag", <<Q, "e1", Q>>>>>>

----------------------------------------------------------------------------
(* Properties of paginate_all (specification SpecPaginate).                *)

\* next_link_href finds a next link on the page: an entry with rel "next" and
\* a string href, with no entry lacking a string rel before it.
FindsNextLink(body) ==
    /\ body.links.isArray
    /\ \E i \in DOMAIN body.links.items :
         /\ body.links.items[i].rel = [some |-> TRUE, v |-> "next"]
         /\ body.links.items[i].href.some
         /\ \A j \in 1..i : body.links.items[j].rel.some

PaginateDone == hout # NoHarness /\ hout.pc = "done"

\* C27: with max_pages > 0 paginate_all makes at most max_pages requests and
\* ends whatever the server answers; with max_items > 0 it returns at most
\* max_items elements; with both limits zero it returns only when a request
\* failed or the last page has no elements array or no next link that
\* next_link_href finds, so against a server whose every page has both it
\* goes on requesting without end.
C27_PaginationLimits ==
    /\ [](hout # NoHarness =>
            /\ hin.max_pages > 0 => hout.requests <= hin.max_pages
            /\ hout.pages <= hout.requests + 1
            /\ (PaginateDone /\ hout.result.kind = "ok") =>
                 /\ hout.pages = hout.requests
                 /\ hin.max_items > 0 =>
                       Len(hout.result.elements) <= hin.max_items
                 /\ (hin.max_pages = 0 /\ hin.max_items = 0) =>
                       (~hout.resp.elements.isArray \/ ~FindsNextLink(hout.resp))
                 /\ \/ ~hout.resp.elements.isArray
                    \/ ~FindsNextLink(hout.resp)
                    \/ hin.max_pages > 0 /\ hout.requests = hin.max_pages
                    \/ hin.max_items > 0
                       /\ Len(hout.result.elements) = hin.max_items)
    /\ (hin.max_pages > 0) ~> PaginateDone

\* The page limit ends a run against a server that always offers a next page.
C27_Witness ==
    /\ PaginateDone /\ hout.result.kind = "ok"
    /\ hin.max_pages = 2 /\ hin.max_items = 0 /\ hout.requests = 2
    /\ FindsNextLink(hout.resp) /\ Len(hout.result.elements) = 4

\* Both limits zero: the run is still requesting when the model leaves it.
C27_WitnessUnlimited ==
    /\ hout # NoHarness /\ hout.pc = "loop"
    /\ hin.max_pages = 0 /\ hin.max_items = 0
    /\ hout.requests = CallCap /\ FindsNextLink(hout.resp)
    /\ hout.resp.elements.isArray

====
